-------------------------------- MODULE Spec2Model --------------------------------
(***************************************************************************)
(* Model of the hybrid extraction-and-classification pipeline of nabt-app  *)
(* (regex engine, complexity heuristic, LLM fallback, rule-based and       *)
(* hybrid classifier) and of the batch run that drives it.                 *)
(*                                                                         *)
(* Text is modelled as sequences of characters (one-character strings, or  *)
(* the code-point name of a character no string can hold), so that the     *)
(* regular expressions, substring tests and case conversions of the source *)
(* are computed rather than assumed.  Confidences are in hundredths        *)
(* (0.85 is 85); a parsed price is a pair <<mantissa, decimals>> denoting  *)
(* mantissa / 10^decimals in lowest form.                                  *)
(***************************************************************************)
EXTENDS Integers, Sequences, FiniteSets, TLC

(* ------------------------------ bounds -------------------------------- *)

\* longest batch handed to process_products
MaxBatch == 2

(* ----------------------------- ASCII characters ------------------------ *)

UPPER ==
  <<"A","B","C","D","E","F","G","H","I","J","K","L","M",
    "N","O","P","Q","R","S","T","U","V","W","X","Y","Z">>

LOWER ==
  <<"a","b","c","d","e","f","g","h","i","j","k","l","m",
    "n","o","p","q","r","s","t","u","v","w","x","y","z">>

DIGITS ==
  {"0","1","2","3","4","5","6","7","8","9"}

UpperSet ==
  {UPPER[i] : i \in 1..26}

LowerSet ==
  {LOWER[i] : i \in 1..26}

ToLower ==
  [c \in UpperSet |-> LOWER[CHOOSE i \in 1..26 : UPPER[i] = c]]

ToUpper ==
  [c \in LowerSet |-> UPPER[CHOOSE i \in 1..26 : LOWER[i] = c]]

(* ------------------------- Unicode character data --------------------- *)
(* The alphabet of the model is the code points U+0000..U+3000 together    *)
(* with the characters their case mappings produce.  A character is a      *)
(* one-character string where a TLA+ string can hold it; any other         *)
(* character is named by its code point, as in "U+0131" (dotless i),       *)
(* "U+017F" (long s), "U+0663" (Arabic-Indic digit three), "U+2003" (em    *)
(* space) or "U+0060" (grave accent).  The tables below list the           *)
(* properties Python 3.11 (Unicode 14.0) gives these characters; the       *)
(* ASCII letters and digits are the tables UPPER, LOWER and DIGITS above.  *)

\* str.isspace(), the characters of regex \s, str.strip() and str.split()
WHITESPACE ==
  {
    "\t", "\n", "", "\f", "\r", "", "", "", "", " ", "", " ", " ", "U+2000", "U+2001",
    "U+2002", "U+2003", "U+2004", "U+2005", "U+2006", "U+2007", "U+2008", "U+2009", "U+200A",
    "U+2028", "U+2029", "U+202F", "U+205F", "U+3000"
  }

\* the decimal digits other than 0-9 (regex \d; float() reads them by value):
\* NON_ASCII_DIGITS[v + 1] holds the digits of value v
NON_ASCII_DIGITS ==
  <<
    {
      "U+0660", "۰", "߀", "U+0966", "০", "U+0A66", "૦", "U+0B66", "௦", "U+0C66", "೦", "U+0D66",
      "෦", "U+0E50", "໐", "U+0F20", "U+1040", "႐", "០", "U+1810", "U+1946", "᧐", "᪀", "᪐",
      "U+1B50", "᮰", "U+1C40", "U+1C50"
    },
    {
      "U+0661", "۱", "߁", "U+0967", "১", "U+0A67", "૧", "U+0B67", "௧", "U+0C67", "೧", "U+0D67",
      "෧", "U+0E51", "໑", "U+0F21", "U+1041", "႑", "១", "U+1811", "U+1947", "᧑", "᪁", "᪑",
      "U+1B51", "᮱", "U+1C41", "U+1C51"
    },
    {
      "U+0662", "۲", "߂", "U+0968", "২", "U+0A68", "૨", "U+0B68", "௨", "U+0C68", "೨", "U+0D68",
      "෨", "U+0E52", "໒", "U+0F22", "U+1042", "႒", "២", "U+1812", "U+1948", "᧒", "᪂", "᪒",
      "U+1B52", "᮲", "U+1C42", "U+1C52"
    },
    {
      "U+0663", "۳", "߃", "U+0969", "৩", "U+0A69", "૩", "U+0B69", "௩", "U+0C69", "೩", "U+0D69",
      "෩", "U+0E53", "໓", "U+0F23", "U+1043", "႓", "៣", "U+1813", "U+1949", "᧓", "᪃", "᪓",
      "U+1B53", "᮳", "U+1C43", "U+1C53"
    },
    {
      "U+0664", "۴", "߄", "U+096A", "৪", "U+0A6A", "૪", "U+0B6A", "௪", "U+0C6A", "೪", "U+0D6A",
      "෪", "U+0E54", "໔", "U+0F24", "U+1044", "႔", "៤", "U+1814", "U+194A", "᧔", "᪄", "᪔",
      "U+1B54", "᮴", "U+1C44", "U+1C54"
    },
    {
      "U+0665", "۵", "߅", "U+096B", "৫", "U+0A6B", "૫", "U+0B6B", "௫", "U+0C6B", "೫", "U+0D6B",
      "෫", "U+0E55", "໕", "U+0F25", "U+1045", "႕", "៥", "U+1815", "U+194B", "᧕", "᪅", "᪕",
      "U+1B55", "᮵", "U+1C45", "U+1C55"
    },
    {
      "U+0666", "۶", "߆", "U+096C", "৬", "U+0A6C", "૬", "U+0B6C", "௬", "U+0C6C", "೬", "U+0D6C",
      "෬", "U+0E56", "໖", "U+0F26", "U+1046", "႖", "៦", "U+1816", "U+194C", "᧖", "᪆", "᪖",
      "U+1B56", "᮶", "U+1C46", "U+1C56"
    },
    {
      "U+0667", "۷", "߇", "U+096D", "৭", "U+0A6D", "૭", "U+0B6D", "௭", "U+0C6D", "೭", "U+0D6D",
      "෭", "U+0E57", "໗", "U+0F27", "U+1047", "႗", "៧", "U+1817", "U+194D", "᧗", "᪇", "᪗",
      "U+1B57", "᮷", "U+1C47", "U+1C57"
    },
    {
      "U+0668", "۸", "߈", "U+096E", "৮", "U+0A6E", "૮", "U+0B6E", "௮", "U+0C6E", "೮", "U+0D6E",
      "෮", "U+0E58", "໘", "U+0F28", "U+1048", "႘", "៨", "U+1818", "U+194E", "᧘", "᪈", "᪘",
      "U+1B58", "᮸", "U+1C48", "U+1C58"
    },
    {
      "U+0669", "۹", "߉", "U+096F", "৯", "U+0A6F", "૯", "U+0B6F", "௯", "U+0C6F", "೯", "U+0D6F",
      "෯", "U+0E59", "໙", "U+0F29", "U+1049", "႙", "៩", "U+1819", "U+194F", "᧙", "᪉", "᪙",
      "U+1B59", "᮹", "U+1C49", "U+1C59"
    }
  >>

\* the characters of regex \w other than A-Z a-z 0-9 _
NON_ASCII_WORD_CHARS ==
  {
    "ª", "²", "³", "µ", "¹", "º", "¼", "½", "¾", "À", "Á", "Â", "Ã", "Ä", "Å", "Æ", "Ç", "È", "É",
    "Ê", "Ë", "Ì", "Í", "Î", "Ï", "Ð", "Ñ", "Ò", "Ó", "Ô", "Õ", "Ö", "Ø", "Ù", "Ú", "Û", "Ü", "Ý",
    "Þ", "ß", "à", "á", "â", "ã", "ä", "å", "æ", "ç", "è", "é", "ê", "ë", "ì", "í", "î", "ï", "ð",
    "ñ", "ò", "ó", "ô", "õ", "ö", "ø", "ù", "ú", "û", "ü", "ý", "þ", "ÿ", "U+0100", "U+0101",
    "U+0102", "U+0103", "U+0104", "U+0105", "U+0106", "U+0107", "U+0108", "U+0109", "U+010A",
    "U+010B", "U+010C", "U+010D", "U+010E", "U+010F", "U+0110", "U+0111", "U+0112", "U+0113",
    "U+0114", "U+0115", "U+0116", "U+0117", "U+0118", "U+0119", "U+011A", "U+011B", "U+011C",
    "U+011D", "U+011E", "U+011F", "U+0120", "U+0121", "U+0122", "U+0123", "U+0124", "U+0125",
    "U+0126", "U+0127", "U+0128", "U+0129", "U+012A", "U+012B", "U+012C", "U+012D", "U+012E",
    "U+012F", "U+0130", "U+0131", "U+0132", "U+0133", "U+0134", "U+0135", "U+0136", "U+0137",
    "U+0138", "U+0139", "U+013A", "U+013B", "U+013C", "U+013D", "U+013E", "U+013F", "U+0140",
    "U+0141", "U+0142", "U+0143", "U+0144", "U+0145", "U+0146", "U+0147", "U+0148", "U+0149",
    "U+014A", "U+014B", "U+014C", "U+014D", "U+014E", "U+014F", "U+0150", "U+0151", "U+0152",
    "U+0153", "U+0154", "U+0155", "U+0156", "U+0157", "U+0158", "U+0159", "U+015A", "U+015B",
    "U+015C", "U+015D", "U+015E", "U+015F", "U+0160", "U+0161", "U+0162", "U+0163", "U+0164",
    "U+0165", "U+0166", "U+0167", "U+0168", "U+0169", "U+016A", "U+016B", "U+016C", "U+016D",
    "U+016E", "U+016F", "U+0170", "U+0171", "U+0172", "U+0173", "U+0174", "U+0175", "U+0176",
    "U+0177", "U+0178", "U+0179", "U+017A", "U+017B", "U+017C", "U+017D", "U+017E", "U+017F", "ƀ",
    "Ɓ", "Ƃ", "ƃ", "Ƅ", "ƅ", "Ɔ", "Ƈ", "ƈ", "Ɖ", "Ɗ", "Ƌ", "ƌ", "ƍ", "Ǝ", "Ə", "Ɛ", "Ƒ", "ƒ", "Ɠ",
    "Ɣ", "ƕ", "Ɩ", "Ɨ", "Ƙ", "ƙ", "ƚ", "ƛ", "Ɯ", "Ɲ", "ƞ", "Ɵ", "Ơ", "ơ", "Ƣ", "ƣ", "Ƥ", "ƥ", "Ʀ",
    "Ƨ", "ƨ", "Ʃ", "ƪ", "ƫ", "Ƭ", "ƭ", "Ʈ", "Ư", "ư", "Ʊ", "Ʋ", "Ƴ", "ƴ", "Ƶ", "ƶ", "Ʒ", "Ƹ", "ƹ",
    "ƺ", "ƻ", "Ƽ", "ƽ", "ƾ", "ƿ", "ǀ", "ǁ", "ǂ", "ǃ", "Ǆ", "ǅ", "ǆ", "Ǉ", "ǈ", "ǉ", "Ǌ", "ǋ", "ǌ",
    "Ǎ", "ǎ", "Ǐ", "ǐ", "Ǒ", "ǒ", "Ǔ", "ǔ", "Ǖ", "ǖ", "Ǘ", "ǘ", "Ǚ", "ǚ", "Ǜ", "ǜ", "ǝ", "Ǟ", "ǟ",
    "Ǡ", "ǡ", "Ǣ", "ǣ", "Ǥ", "ǥ", "Ǧ", "ǧ", "Ǩ", "ǩ", "Ǫ", "ǫ", "Ǭ", "ǭ", "Ǯ", "ǯ", "ǰ", "Ǳ", "ǲ",
    "ǳ", "Ǵ", "ǵ", "Ƕ", "Ƿ", "Ǹ", "ǹ", "Ǻ", "ǻ", "Ǽ", "ǽ", "Ǿ", "ǿ", "U+0200", "U+0201", "U+0202",
    "U+0203", "U+0204", "U+0205", "U+0206", "U+0207", "U+0208", "U+0209", "U+020A", "U+020B",
    "U+020C", "U+020D", "U+020E", "U+020F", "U+0210", "U+0211", "U+0212", "U+0213", "U+0214",
    "U+0215", "U+0216", "U+0217", "U+0218", "U+0219", "U+021A", "U+021B", "U+021C", "U+021D",
    "U+021E", "U+021F", "U+0220", "U+0221", "U+0222", "U+0223", "U+0224", "U+0225", "U+0226",
    "U+0227", "U+0228", "U+0229", "U+022A", "U+022B", "U+022C", "U+022D", "U+022E", "U+022F",
    "U+0230", "U+0231", "U+0232", "U+0233", "U+0234", "U+0235", "U+0236", "U+0237", "U+0238",
    "U+0239", "U+023A", "U+023B", "U+023C", "U+023D", "U+023E", "U+023F", "U+0240", "U+0241",
    "U+0242", "U+0243", "U+0244", "U+0245", "U+0246", "U+0247", "U+0248", "U+0249", "U+024A",
    "U+024B", "U+024C", "U+024D", "U+024E", "U+024F", "U+0250", "U+0251", "U+0252", "U+0253",
    "U+0254", "U+0255", "U+0256", "U+0257", "U+0258", "U+0259", "U+025A", "U+025B", "U+025C",
    "U+025D", "U+025E", "U+025F", "U+0260", "U+0261", "U+0262", "U+0263", "U+0264", "U+0265",
    "U+0266", "U+0267", "U+0268", "U+0269", "U+026A", "U+026B", "U+026C", "U+026D", "U+026E",
    "U+026F", "U+0270", "U+0271", "U+0272", "U+0273", "U+0274", "U+0275", "U+0276", "U+0277",
    "U+0278", "U+0279", "U+027A", "U+027B", "U+027C", "U+027D", "U+027E", "U+027F", "ʀ", "ʁ", "ʂ",
    "ʃ", "ʄ", "ʅ", "ʆ", "ʇ", "ʈ", "ʉ", "ʊ", "ʋ", "ʌ", "ʍ", "ʎ", "ʏ", "ʐ", "ʑ", "ʒ", "ʓ", "ʔ", "ʕ",
    "ʖ", "ʗ", "ʘ", "ʙ", "ʚ", "ʛ", "ʜ", "ʝ", "ʞ", "ʟ", "ʠ", "ʡ", "ʢ", "ʣ", "ʤ", "ʥ", "ʦ", "ʧ", "ʨ",
    "ʩ", "ʪ", "ʫ", "ʬ", "ʭ", "ʮ", "ʯ", "ʰ", "ʱ", "ʲ", "ʳ", "ʴ", "ʵ", "ʶ", "ʷ", "ʸ", "ʹ", "ʺ", "ʻ",
    "ʼ", "ʽ", "ʾ", "ʿ", "ˀ", "ˁ", "ˆ", "ˇ", "ˈ", "ˉ", "ˊ", "ˋ", "ˌ", "ˍ", "ˎ", "ˏ", "ː", "ˑ", "ˠ",
    "ˡ", "ˢ", "ˣ", "ˤ", "ˬ", "ˮ", "U+0370", "U+0371", "U+0372", "U+0373", "U+0374", "U+0376",
    "U+0377", "U+037A", "U+037B", "U+037C", "U+037D", "U+037F", "Ά", "Έ", "Ή", "Ί", "Ό", "Ύ", "Ώ",
    "ΐ", "Α", "Β", "Γ", "Δ", "Ε", "Ζ", "Η", "Θ", "Ι", "Κ", "Λ", "Μ", "Ν", "Ξ", "Ο", "Π", "Ρ", "Σ",
    "Τ", "Υ", "Φ", "Χ", "Ψ", "Ω", "Ϊ", "Ϋ", "ά", "έ", "ή", "ί", "ΰ", "α", "β", "γ", "δ", "ε", "ζ",
    "η", "θ", "ι", "κ", "λ", "μ", "ν", "ξ", "ο", "π", "ρ", "ς", "σ", "τ", "υ", "φ", "χ", "ψ", "ω",
    "ϊ", "ϋ", "ό", "ύ", "ώ", "Ϗ", "ϐ", "ϑ", "ϒ", "ϓ", "ϔ", "ϕ", "ϖ", "ϗ", "Ϙ", "ϙ", "Ϛ", "ϛ", "Ϝ",
    "ϝ", "Ϟ", "ϟ", "Ϡ", "ϡ", "Ϣ", "ϣ", "Ϥ", "ϥ", "Ϧ", "ϧ", "Ϩ", "ϩ", "Ϫ", "ϫ", "Ϭ", "ϭ", "Ϯ", "ϯ",
    "ϰ", "ϱ", "ϲ", "ϳ", "ϴ", "ϵ", "Ϸ", "ϸ", "Ϲ", "Ϻ", "ϻ", "ϼ", "Ͻ", "Ͼ", "Ͽ", "U+0400", "U+0401",
    "U+0402", "U+0403", "U+0404", "U+0405", "U+0406", "U+0407", "U+0408", "U+0409", "U+040A",
    "U+040B", "U+040C", "U+040D", "U+040E", "U+040F", "U+0410", "U+0411", "U+0412", "U+0413",
    "U+0414", "U+0415", "U+0416", "U+0417", "U+0418", "U+0419", "U+041A", "U+041B", "U+041C",
    "U+041D", "U+041E", "U+041F", "U+0420", "U+0421", "U+0422", "U+0423", "U+0424", "U+0425",
    "U+0426", "U+0427", "U+0428", "U+0429", "U+042A", "U+042B", "U+042C", "U+042D", "U+042E",
    "U+042F", "U+0430", "U+0431", "U+0432", "U+0433", "U+0434", "U+0435", "U+0436", "U+0437",
    "U+0438", "U+0439", "U+043A", "U+043B", "U+043C", "U+043D", "U+043E", "U+043F", "U+0440",
    "U+0441", "U+0442", "U+0443", "U+0444", "U+0445", "U+0446", "U+0447", "U+0448", "U+0449",
    "U+044A", "U+044B", "U+044C", "U+044D", "U+044E", "U+044F", "U+0450", "U+0451", "U+0452",
    "U+0453", "U+0454", "U+0455", "U+0456", "U+0457", "U+0458", "U+0459", "U+045A", "U+045B",
    "U+045C", "U+045D", "U+045E", "U+045F", "U+0460", "U+0461", "U+0462", "U+0463", "U+0464",
    "U+0465", "U+0466", "U+0467", "U+0468", "U+0469", "U+046A", "U+046B", "U+046C", "U+046D",
    "U+046E", "U+046F", "U+0470", "U+0471", "U+0472", "U+0473", "U+0474", "U+0475", "U+0476",
    "U+0477", "U+0478", "U+0479", "U+047A", "U+047B", "U+047C", "U+047D", "U+047E", "U+047F", "Ҁ",
    "ҁ", "Ҋ", "ҋ", "Ҍ", "ҍ", "Ҏ", "ҏ", "Ґ", "ґ", "Ғ", "ғ", "Ҕ", "ҕ", "Җ", "җ", "Ҙ", "ҙ", "Қ", "қ",
    "Ҝ", "ҝ", "Ҟ", "ҟ", "Ҡ", "ҡ", "Ң", "ң", "Ҥ", "ҥ", "Ҧ", "ҧ", "Ҩ", "ҩ", "Ҫ", "ҫ", "Ҭ", "ҭ", "Ү",
    "ү", "Ұ", "ұ", "Ҳ", "ҳ", "Ҵ", "ҵ", "Ҷ", "ҷ", "Ҹ", "ҹ", "Һ", "һ", "Ҽ", "ҽ", "Ҿ", "ҿ", "Ӏ", "Ӂ",
    "ӂ", "Ӄ", "ӄ", "Ӆ", "ӆ", "Ӈ", "ӈ", "Ӊ", "ӊ", "Ӌ", "ӌ", "Ӎ", "ӎ", "ӏ", "Ӑ", "ӑ", "Ӓ", "ӓ", "Ӕ",
    "ӕ", "Ӗ", "ӗ", "Ә", "ә", "Ӛ", "ӛ", "Ӝ", "ӝ", "Ӟ", "ӟ", "Ӡ", "ӡ", "Ӣ", "ӣ", "Ӥ", "ӥ", "Ӧ", "ӧ",
    "Ө", "ө", "Ӫ", "ӫ", "Ӭ", "ӭ", "Ӯ", "ӯ", "Ӱ", "ӱ", "Ӳ", "ӳ", "Ӵ", "ӵ", "Ӷ", "ӷ", "Ӹ", "ӹ", "Ӻ",
    "ӻ", "Ӽ", "ӽ", "Ӿ", "ӿ", "U+0500", "U+0501", "U+0502", "U+0503", "U+0504", "U+0505", "U+0506",
    "U+0507", "U+0508", "U+0509", "U+050A", "U+050B", "U+050C", "U+050D", "U+050E", "U+050F",
    "U+0510", "U+0511", "U+0512", "U+0513", "U+0514", "U+0515", "U+0516", "U+0517", "U+0518",
    "U+0519", "U+051A", "U+051B", "U+051C", "U+051D", "U+051E", "U+051F", "U+0520", "U+0521",
    "U+0522", "U+0523", "U+0524", "U+0525", "U+0526", "U+0527", "U+0528", "U+0529", "U+052A",
    "U+052B", "U+052C", "U+052D", "U+052E", "U+052F", "U+0531", "U+0532", "U+0533", "U+0534",
    "U+0535", "U+0536", "U+0537", "U+0538", "U+0539", "U+053A", "U+053B", "U+053C", "U+053D",
    "U+053E", "U+053F", "U+0540", "U+0541", "U+0542", "U+0543", "U+0544", "U+0545", "U+0546",
    "U+0547", "U+0548", "U+0549", "U+054A", "U+054B", "U+054C", "U+054D", "U+054E", "U+054F",
    "U+0550", "U+0551", "U+0552", "U+0553", "U+0554", "U+0555", "U+0556", "U+0559", "U+0560",
    "U+0561", "U+0562", "U+0563", "U+0564", "U+0565", "U+0566", "U+0567", "U+0568", "U+0569",
    "U+056A", "U+056B", "U+056C", "U+056D", "U+056E", "U+056F", "U+0570", "U+0571", "U+0572",
    "U+0573", "U+0574", "U+0575", "U+0576", "U+0577", "U+0578", "U+0579", "U+057A", "U+057B",
    "U+057C", "U+057D", "U+057E", "U+057F", "ր", "ց", "ւ", "փ", "ք", "օ", "ֆ", "և", "ֈ", "א", "ב",
    "ג", "ד", "ה", "ו", "ז", "ח", "ט", "י", "ך", "כ", "ל", "ם", "מ", "ן", "נ", "ס", "ע", "ף", "פ",
    "ץ", "צ", "ק", "ר", "ש", "ת", "ׯ", "װ", "ױ", "ײ", "U+0620", "U+0621", "U+0622", "U+0623",
    "U+0624", "U+0625", "U+0626", "U+0627", "U+0628", "U+0629", "U+062A", "U+062B", "U+062C",
    "U+062D", "U+062E", "U+062F", "U+0630", "U+0631", "U+0632", "U+0633", "U+0634", "U+0635",
    "U+0636", "U+0637", "U+0638", "U+0639", "U+063A", "U+063B", "U+063C", "U+063D", "U+063E",
    "U+063F", "U+0640", "U+0641", "U+0642", "U+0643", "U+0644", "U+0645", "U+0646", "U+0647",
    "U+0648", "U+0649", "U+064A", "U+0660", "U+0661", "U+0662", "U+0663", "U+0664", "U+0665",
    "U+0666", "U+0667", "U+0668", "U+0669", "U+066E", "U+066F", "U+0671", "U+0672", "U+0673",
    "U+0674", "U+0675", "U+0676", "U+0677", "U+0678", "U+0679", "U+067A", "U+067B", "U+067C",
    "U+067D", "U+067E", "U+067F", "ڀ", "ځ", "ڂ", "ڃ", "ڄ", "څ", "چ", "ڇ", "ڈ", "ډ", "ڊ", "ڋ", "ڌ",
    "ڍ", "ڎ", "ڏ", "ڐ", "ڑ", "ڒ", "ړ", "ڔ", "ڕ", "ږ", "ڗ", "ژ", "ڙ", "ښ", "ڛ", "ڜ", "ڝ", "ڞ", "ڟ",
    "ڠ", "ڡ", "ڢ", "ڣ", "ڤ", "ڥ", "ڦ", "ڧ", "ڨ", "ک", "ڪ", "ګ", "ڬ", "ڭ", "ڮ", "گ", "ڰ", "ڱ", "ڲ",
    "ڳ", "ڴ", "ڵ", "ڶ", "ڷ", "ڸ", "ڹ", "ں", "ڻ", "ڼ", "ڽ", "ھ", "ڿ", "ۀ", "ہ", "ۂ", "ۃ", "ۄ", "ۅ",
    "ۆ", "ۇ", "ۈ", "ۉ", "ۊ", "ۋ", "ی", "ۍ", "ێ", "ۏ", "ې", "ۑ", "ے", "ۓ", "ە", "ۥ", "ۦ", "ۮ", "ۯ",
    "۰", "۱", "۲", "۳", "۴", "۵", "۶", "۷", "۸", "۹", "ۺ", "ۻ", "ۼ", "ۿ", "U+0710", "U+0712",
    "U+0713", "U+0714", "U+0715", "U+0716", "U+0717", "U+0718", "U+0719", "U+071A", "U+071B",
    "U+071C", "U+071D", "U+071E", "U+071F", "U+0720", "U+0721", "U+0722", "U+0723", "U+0724",
    "U+0725", "U+0726", "U+0727", "U+0728", "U+0729", "U+072A", "U+072B", "U+072C", "U+072D",
    "U+072E", "U+072F", "U+074D", "U+074E", "U+074F", "U+0750", "U+0751", "U+0752", "U+0753",
    "U+0754", "U+0755", "U+0756", "U+0757", "U+0758", "U+0759", "U+075A", "U+075B", "U+075C",
    "U+075D", "U+075E", "U+075F", "U+0760", "U+0761", "U+0762", "U+0763", "U+0764", "U+0765",
    "U+0766", "U+0767", "U+0768", "U+0769", "U+076A", "U+076B", "U+076C", "U+076D", "U+076E",
    "U+076F", "U+0770", "U+0771", "U+0772", "U+0773", "U+0774", "U+0775", "U+0776", "U+0777",
    "U+0778", "U+0779", "U+077A", "U+077B", "U+077C", "U+077D", "U+077E", "U+077F", "ހ", "ށ", "ނ",
    "ރ", "ބ", "ޅ", "ކ", "އ", "ވ", "މ", "ފ", "ދ", "ތ", "ލ", "ގ", "ޏ", "ސ", "ޑ", "ޒ", "ޓ", "ޔ", "ޕ",
    "ޖ", "ޗ", "ޘ", "ޙ", "ޚ", "ޛ", "ޜ", "ޝ", "ޞ", "ޟ", "ޠ", "ޡ", "ޢ", "ޣ", "ޤ", "ޥ", "ޱ", "߀", "߁",
    "߂", "߃", "߄", "߅", "߆", "߇", "߈", "߉", "ߊ", "ߋ", "ߌ", "ߍ", "ߎ", "ߏ", "ߐ", "ߑ", "ߒ", "ߓ", "ߔ",
    "ߕ", "ߖ", "ߗ", "ߘ", "ߙ", "ߚ", "ߛ", "ߜ", "ߝ", "ߞ", "ߟ", "ߠ", "ߡ", "ߢ", "ߣ", "ߤ", "ߥ", "ߦ", "ߧ",
    "ߨ", "ߩ", "ߪ", "ߴ", "ߵ", "ߺ", "U+0800", "U+0801", "U+0802", "U+0803", "U+0804", "U+0805",
    "U+0806", "U+0807", "U+0808", "U+0809", "U+080A", "U+080B", "U+080C", "U+080D", "U+080E",
    "U+080F", "U+0810", "U+0811", "U+0812", "U+0813", "U+0814", "U+0815", "U+081A", "U+0824",
    "U+0828", "U+0840", "U+0841", "U+0842", "U+0843", "U+0844", "U+0845", "U+0846", "U+0847",
    "U+0848", "U+0849", "U+084A", "U+084B", "U+084C", "U+084D", "U+084E", "U+084F", "U+0850",
    "U+0851", "U+0852", "U+0853", "U+0854", "U+0855", "U+0856", "U+0857", "U+0858", "U+0860",
    "U+0861", "U+0862", "U+0863", "U+0864", "U+0865", "U+0866", "U+0867", "U+0868", "U+0869",
    "U+086A", "U+0870", "U+0871", "U+0872", "U+0873", "U+0874", "U+0875", "U+0876", "U+0877",
    "U+0878", "U+0879", "U+087A", "U+087B", "U+087C", "U+087D", "U+087E", "U+087F", "ࢀ", "ࢁ", "ࢂ",
    "ࢃ", "ࢄ", "ࢅ", "ࢆ", "ࢇ", "ࢉ", "ࢊ", "ࢋ", "ࢌ", "ࢍ", "ࢎ", "ࢠ", "ࢡ", "ࢢ", "ࢣ", "ࢤ", "ࢥ", "ࢦ", "ࢧ",
    "ࢨ", "ࢩ", "ࢪ", "ࢫ", "ࢬ", "ࢭ", "ࢮ", "ࢯ", "ࢰ", "ࢱ", "ࢲ", "ࢳ", "ࢴ", "ࢵ", "ࢶ", "ࢷ", "ࢸ", "ࢹ", "ࢺ",
    "ࢻ", "ࢼ", "ࢽ", "ࢾ", "ࢿ", "ࣀ", "ࣁ", "ࣂ", "ࣃ", "ࣄ", "ࣅ", "ࣆ", "ࣇ", "ࣈ", "ࣉ", "U+0904", "U+0905",
    "U+0906", "U+0907", "U+0908", "U+0909", "U+090A", "U+090B", "U+090C", "U+090D", "U+090E",
    "U+090F", "U+0910", "U+0911", "U+0912", "U+0913", "U+0914", "U+0915", "U+0916", "U+0917",
    "U+0918", "U+0919", "U+091A", "U+091B", "U+091C", "U+091D", "U+091E", "U+091F", "U+0920",
    "U+0921", "U+0922", "U+0923", "U+0924", "U+0925", "U+0926", "U+0927", "U+0928", "U+0929",
    "U+092A", "U+092B", "U+092C", "U+092D", "U+092E", "U+092F", "U+0930", "U+0931", "U+0932",
    "U+0933", "U+0934", "U+0935", "U+0936", "U+0937", "U+0938", "U+0939", "U+093D", "U+0950",
    "U+0958", "U+0959", "U+095A", "U+095B", "U+095C", "U+095D", "U+095E", "U+095F", "U+0960",
    "U+0961", "U+0966", "U+0967", "U+0968", "U+0969", "U+096A", "U+096B", "U+096C", "U+096D",
    "U+096E", "U+096F", "U+0971", "U+0972", "U+0973", "U+0974", "U+0975", "U+0976", "U+0977",
    "U+0978", "U+0979", "U+097A", "U+097B", "U+097C", "U+097D", "U+097E", "U+097F", "ঀ", "অ", "আ",
    "ই", "ঈ", "উ", "ঊ", "ঋ", "ঌ", "এ", "ঐ", "ও", "ঔ", "ক", "খ", "গ", "ঘ", "ঙ", "চ", "ছ", "জ", "ঝ",
    "ঞ", "ট", "ঠ", "ড", "ঢ", "ণ", "ত", "থ", "দ", "ধ", "ন", "প", "ফ", "ব", "ভ", "ম", "য", "র", "ল",
    "শ", "ষ", "স", "হ", "ঽ", "ৎ", "ড়", "ঢ়", "য়", "ৠ", "ৡ", "০", "১", "২", "৩", "৪", "৫", "৬", "৭",
    "৮", "৯", "ৰ", "ৱ", "৴", "৵", "৶", "৷", "৸", "৹", "ৼ", "U+0A05", "U+0A06", "U+0A07", "U+0A08",
    "U+0A09", "U+0A0A", "U+0A0F", "U+0A10", "U+0A13", "U+0A14", "U+0A15", "U+0A16", "U+0A17",
    "U+0A18", "U+0A19", "U+0A1A", "U+0A1B", "U+0A1C", "U+0A1D", "U+0A1E", "U+0A1F", "U+0A20",
    "U+0A21", "U+0A22", "U+0A23", "U+0A24", "U+0A25", "U+0A26", "U+0A27", "U+0A28", "U+0A2A",
    "U+0A2B", "U+0A2C", "U+0A2D", "U+0A2E", "U+0A2F", "U+0A30", "U+0A32", "U+0A33", "U+0A35",
    "U+0A36", "U+0A38", "U+0A39", "U+0A59", "U+0A5A", "U+0A5B", "U+0A5C", "U+0A5E", "U+0A66",
    "U+0A67", "U+0A68", "U+0A69", "U+0A6A", "U+0A6B", "U+0A6C", "U+0A6D", "U+0A6E", "U+0A6F",
    "U+0A72", "U+0A73", "U+0A74", "અ", "આ", "ઇ", "ઈ", "ઉ", "ઊ", "ઋ", "ઌ", "ઍ", "એ", "ઐ", "ઑ", "ઓ",
    "ઔ", "ક", "ખ", "ગ", "ઘ", "ઙ", "ચ", "છ", "જ", "ઝ", "ઞ", "ટ", "ઠ", "ડ", "ઢ", "ણ", "ત", "થ", "દ",
    "ધ", "ન", "પ", "ફ", "બ", "ભ", "મ", "ય", "ર", "લ", "ળ", "વ", "શ", "ષ", "સ", "હ", "ઽ", "ૐ", "ૠ",
    "ૡ", "૦", "૧", "૨", "૩", "૪", "૫", "૬", "૭", "૮", "૯", "ૹ", "U+0B05", "U+0B06", "U+0B07",
    "U+0B08", "U+0B09", "U+0B0A", "U+0B0B", "U+0B0C", "U+0B0F", "U+0B10", "U+0B13", "U+0B14",
    "U+0B15", "U+0B16", "U+0B17", "U+0B18", "U+0B19", "U+0B1A", "U+0B1B", "U+0B1C", "U+0B1D",
    "U+0B1E", "U+0B1F", "U+0B20", "U+0B21", "U+0B22", "U+0B23", "U+0B24", "U+0B25", "U+0B26",
    "U+0B27", "U+0B28", "U+0B2A", "U+0B2B", "U+0B2C", "U+0B2D", "U+0B2E", "U+0B2F", "U+0B30",
    "U+0B32", "U+0B33", "U+0B35", "U+0B36", "U+0B37", "U+0B38", "U+0B39", "U+0B3D", "U+0B5C",
    "U+0B5D", "U+0B5F", "U+0B60", "U+0B61", "U+0B66", "U+0B67", "U+0B68", "U+0B69", "U+0B6A",
    "U+0B6B", "U+0B6C", "U+0B6D", "U+0B6E", "U+0B6F", "U+0B71", "U+0B72", "U+0B73", "U+0B74",
    "U+0B75", "U+0B76", "U+0B77", "ஃ", "அ", "ஆ", "இ", "ஈ", "உ", "ஊ", "எ", "ஏ", "ஐ", "ஒ", "ஓ", "ஔ",
    "க", "ங", "ச", "ஜ", "ஞ", "ட", "ண", "த", "ந", "ன", "ப", "ம", "ய", "ர", "ற", "ல", "ள", "ழ", "வ",
    "ஶ", "ஷ", "ஸ", "ஹ", "ௐ", "௦", "௧", "௨", "௩", "௪", "௫", "௬", "௭", "௮", "௯", "௰", "௱", "௲",
    "U+0C05", "U+0C06", "U+0C07", "U+0C08", "U+0C09", "U+0C0A", "U+0C0B", "U+0C0C", "U+0C0E",
    "U+0C0F", "U+0C10", "U+0C12", "U+0C13", "U+0C14", "U+0C15", "U+0C16", "U+0C17", "U+0C18",
    "U+0C19", "U+0C1A", "U+0C1B", "U+0C1C", "U+0C1D", "U+0C1E", "U+0C1F", "U+0C20", "U+0C21",
    "U+0C22", "U+0C23", "U+0C24", "U+0C25", "U+0C26", "U+0C27", "U+0C28", "U+0C2A", "U+0C2B",
    "U+0C2C", "U+0C2D", "U+0C2E", "U+0C2F", "U+0C30", "U+0C31", "U+0C32", "U+0C33", "U+0C34",
    "U+0C35", "U+0C36", "U+0C37", "U+0C38", "U+0C39", "U+0C3D", "U+0C58", "U+0C59", "U+0C5A",
    "U+0C5D", "U+0C60", "U+0C61", "U+0C66", "U+0C67", "U+0C68", "U+0C69", "U+0C6A", "U+0C6B",
    "U+0C6C", "U+0C6D", "U+0C6E", "U+0C6F", "U+0C78", "U+0C79", "U+0C7A", "U+0C7B", "U+0C7C",
    "U+0C7D", "U+0C7E", "ಀ", "ಅ", "ಆ", "ಇ", "ಈ", "ಉ", "ಊ", "ಋ", "ಌ", "ಎ", "ಏ", "ಐ", "ಒ", "ಓ", "ಔ",
    "ಕ", "ಖ", "ಗ", "ಘ", "ಙ", "ಚ", "ಛ", "ಜ", "ಝ", "ಞ", "ಟ", "ಠ", "ಡ", "ಢ", "ಣ", "ತ", "ಥ", "ದ", "ಧ",
    "ನ", "ಪ", "ಫ", "ಬ", "ಭ", "ಮ", "ಯ", "ರ", "ಱ", "ಲ", "ಳ", "ವ", "ಶ", "ಷ", "ಸ", "ಹ", "ಽ", "ೝ", "ೞ",
    "ೠ", "ೡ", "೦", "೧", "೨", "೩", "೪", "೫", "೬", "೭", "೮", "೯", "ೱ", "ೲ", "U+0D04", "U+0D05",
    "U+0D06", "U+0D07", "U+0D08", "U+0D09", "U+0D0A", "U+0D0B", "U+0D0C", "U+0D0E", "U+0D0F",
    "U+0D10", "U+0D12", "U+0D13", "U+0D14", "U+0D15", "U+0D16", "U+0D17", "U+0D18", "U+0D19",
    "U+0D1A", "U+0D1B", "U+0D1C", "U+0D1D", "U+0D1E", "U+0D1F", "U+0D20", "U+0D21", "U+0D22",
    "U+0D23", "U+0D24", "U+0D25", "U+0D26", "U+0D27", "U+0D28", "U+0D29", "U+0D2A", "U+0D2B",
    "U+0D2C", "U+0D2D", "U+0D2E", "U+0D2F", "U+0D30", "U+0D31", "U+0D32", "U+0D33", "U+0D34",
    "U+0D35", "U+0D36", "U+0D37", "U+0D38", "U+0D39", "U+0D3A", "U+0D3D", "U+0D4E", "U+0D54",
    "U+0D55", "U+0D56", "U+0D58", "U+0D59", "U+0D5A", "U+0D5B", "U+0D5C", "U+0D5D", "U+0D5E",
    "U+0D5F", "U+0D60", "U+0D61", "U+0D66", "U+0D67", "U+0D68", "U+0D69", "U+0D6A", "U+0D6B",
    "U+0D6C", "U+0D6D", "U+0D6E", "U+0D6F", "U+0D70", "U+0D71", "U+0D72", "U+0D73", "U+0D74",
    "U+0D75", "U+0D76", "U+0D77", "U+0D78", "U+0D7A", "U+0D7B", "U+0D7C", "U+0D7D", "U+0D7E",
    "U+0D7F", "අ", "ආ", "ඇ", "ඈ", "ඉ", "ඊ", "උ", "ඌ", "ඍ", "ඎ", "ඏ", "ඐ", "එ", "ඒ", "ඓ", "ඔ", "ඕ",
    "ඖ", "ක", "ඛ", "ග", "ඝ", "ඞ", "ඟ", "ච", "ඡ", "ජ", "ඣ", "ඤ", "ඥ", "ඦ", "ට", "ඨ", "ඩ", "ඪ", "ණ",
    "ඬ", "ත", "ථ", "ද", "ධ", "න", "ඳ", "ප", "ඵ", "බ", "භ", "ම", "ඹ", "ය", "ර", "ල", "ව", "ශ", "ෂ",
    "ස", "හ", "ළ", "ෆ", "෦", "෧", "෨", "෩", "෪", "෫", "෬", "෭", "෮", "෯", "U+0E01", "U+0E02",
    "U+0E03", "U+0E04", "U+0E05", "U+0E06", "U+0E07", "U+0E08", "U+0E09", "U+0E0A", "U+0E0B",
    "U+0E0C", "U+0E0D", "U+0E0E", "U+0E0F", "U+0E10", "U+0E11", "U+0E12", "U+0E13", "U+0E14",
    "U+0E15", "U+0E16", "U+0E17", "U+0E18", "U+0E19", "U+0E1A", "U+0E1B", "U+0E1C", "U+0E1D",
    "U+0E1E", "U+0E1F", "U+0E20", "U+0E21", "U+0E22", "U+0E23", "U+0E24", "U+0E25", "U+0E26",
    "U+0E27", "U+0E28", "U+0E29", "U+0E2A", "U+0E2B", "U+0E2C", "U+0E2D", "U+0E2E", "U+0E2F",
    "U+0E30", "U+0E32", "U+0E33", "U+0E40", "U+0E41", "U+0E42", "U+0E43", "U+0E44", "U+0E45",
    "U+0E46", "U+0E50", "U+0E51", "U+0E52", "U+0E53", "U+0E54", "U+0E55", "U+0E56", "U+0E57",
    "U+0E58", "U+0E59", "ກ", "ຂ", "ຄ", "ຆ", "ງ", "ຈ", "ຉ", "ຊ", "ຌ", "ຍ", "ຎ", "ຏ", "ຐ", "ຑ", "ຒ",
    "ຓ", "ດ", "ຕ", "ຖ", "ທ", "ຘ", "ນ", "ບ", "ປ", "ຜ", "ຝ", "ພ", "ຟ", "ຠ", "ມ", "ຢ", "ຣ", "ລ", "ວ",
    "ຨ", "ຩ", "ສ", "ຫ", "ຬ", "ອ", "ຮ", "ຯ", "ະ", "າ", "ຳ", "ຽ", "ເ", "ແ", "ໂ", "ໃ", "ໄ", "ໆ", "໐",
    "໑", "໒", "໓", "໔", "໕", "໖", "໗", "໘", "໙", "ໜ", "ໝ", "ໞ", "ໟ", "U+0F00", "U+0F20", "U+0F21",
    "U+0F22", "U+0F23", "U+0F24", "U+0F25", "U+0F26", "U+0F27", "U+0F28", "U+0F29", "U+0F2A",
    "U+0F2B", "U+0F2C", "U+0F2D", "U+0F2E", "U+0F2F", "U+0F30", "U+0F31", "U+0F32", "U+0F33",
    "U+0F40", "U+0F41", "U+0F42", "U+0F43", "U+0F44", "U+0F45", "U+0F46", "U+0F47", "U+0F49",
    "U+0F4A", "U+0F4B", "U+0F4C", "U+0F4D", "U+0F4E", "U+0F4F", "U+0F50", "U+0F51", "U+0F52",
    "U+0F53", "U+0F54", "U+0F55", "U+0F56", "U+0F57", "U+0F58", "U+0F59", "U+0F5A", "U+0F5B",
    "U+0F5C", "U+0F5D", "U+0F5E", "U+0F5F", "U+0F60", "U+0F61", "U+0F62", "U+0F63", "U+0F64",
    "U+0F65", "U+0F66", "U+0F67", "U+0F68", "U+0F69", "U+0F6A", "U+0F6B", "U+0F6C", "ྈ", "ྉ", "ྊ",
    "ྋ", "ྌ", "U+1000", "U+1001", "U+1002", "U+1003", "U+1004", "U+1005", "U+1006", "U+1007",
    "U+1008", "U+1009", "U+100A", "U+100B", "U+100C", "U+100D", "U+100E", "U+100F", "U+1010",
    "U+1011", "U+1012", "U+1013", "U+1014", "U+1015", "U+1016", "U+1017", "U+1018", "U+1019",
    "U+101A", "U+101B", "U+101C", "U+101D", "U+101E", "U+101F", "U+1020", "U+1021", "U+1022",
    "U+1023", "U+1024", "U+1025", "U+1026", "U+1027", "U+1028", "U+1029", "U+102A", "U+103F",
    "U+1040", "U+1041", "U+1042", "U+1043", "U+1044", "U+1045", "U+1046", "U+1047", "U+1048",
    "U+1049", "U+1050", "U+1051", "U+1052", "U+1053", "U+1054", "U+1055", "U+105A", "U+105B",
    "U+105C", "U+105D", "U+1061", "U+1065", "U+1066", "U+106E", "U+106F", "U+1070", "U+1075",
    "U+1076", "U+1077", "U+1078", "U+1079", "U+107A", "U+107B", "U+107C", "U+107D", "U+107E",
    "U+107F", "ႀ", "ႁ", "ႎ", "႐", "႑", "႒", "႓", "႔", "႕", "႖", "႗", "႘", "႙", "Ⴀ", "Ⴁ", "Ⴂ", "Ⴃ",
    "Ⴄ", "Ⴅ", "Ⴆ", "Ⴇ", "Ⴈ", "Ⴉ", "Ⴊ", "Ⴋ", "Ⴌ", "Ⴍ", "Ⴎ", "Ⴏ", "Ⴐ", "Ⴑ", "Ⴒ", "Ⴓ", "Ⴔ", "Ⴕ", "Ⴖ",
    "Ⴗ", "Ⴘ", "Ⴙ", "Ⴚ", "Ⴛ", "Ⴜ", "Ⴝ", "Ⴞ", "Ⴟ", "Ⴠ", "Ⴡ", "Ⴢ", "Ⴣ", "Ⴤ", "Ⴥ", "Ⴧ", "Ⴭ", "ა", "ბ",
    "გ", "დ", "ე", "ვ", "ზ", "თ", "ი", "კ", "ლ", "მ", "ნ", "ო", "პ", "ჟ", "რ", "ს", "ტ", "უ", "ფ",
    "ქ", "ღ", "ყ", "შ", "ჩ", "ც", "ძ", "წ", "ჭ", "ხ", "ჯ", "ჰ", "ჱ", "ჲ", "ჳ", "ჴ", "ჵ", "ჶ", "ჷ",
    "ჸ", "ჹ", "ჺ", "ჼ", "ჽ", "ჾ", "ჿ", "U+1100", "U+1101", "U+1102", "U+1103", "U+1104", "U+1105",
    "U+1106", "U+1107", "U+1108", "U+1109", "U+110A", "U+110B", "U+110C", "U+110D", "U+110E",
    "U+110F", "U+1110", "U+1111", "U+1112", "U+1113", "U+1114", "U+1115", "U+1116", "U+1117",
    "U+1118", "U+1119", "U+111A", "U+111B", "U+111C", "U+111D", "U+111E", "U+111F", "U+1120",
    "U+1121", "U+1122", "U+1123", "U+1124", "U+1125", "U+1126", "U+1127", "U+1128", "U+1129",
    "U+112A", "U+112B", "U+112C", "U+112D", "U+112E", "U+112F", "U+1130", "U+1131", "U+1132",
    "U+1133", "U+1134", "U+1135", "U+1136", "U+1137", "U+1138", "U+1139", "U+113A", "U+113B",
    "U+113C", "U+113D", "U+113E", "U+113F", "U+1140", "U+1141", "U+1142", "U+1143", "U+1144",
    "U+1145", "U+1146", "U+1147", "U+1148", "U+1149", "U+114A", "U+114B", "U+114C", "U+114D",
    "U+114E", "U+114F", "U+1150", "U+1151", "U+1152", "U+1153", "U+1154", "U+1155", "U+1156",
    "U+1157", "U+1158", "U+1159", "U+115A", "U+115B", "U+115C", "U+115D", "U+115E", "U+115F",
    "U+1160", "U+1161", "U+1162", "U+1163", "U+1164", "U+1165", "U+1166", "U+1167", "U+1168",
    "U+1169", "U+116A", "U+116B", "U+116C", "U+116D", "U+116E", "U+116F", "U+1170", "U+1171",
    "U+1172", "U+1173", "U+1174", "U+1175", "U+1176", "U+1177", "U+1178", "U+1179", "U+117A",
    "U+117B", "U+117C", "U+117D", "U+117E", "U+117F", "ᆀ", "ᆁ", "ᆂ", "ᆃ", "ᆄ", "ᆅ", "ᆆ", "ᆇ", "ᆈ",
    "ᆉ", "ᆊ", "ᆋ", "ᆌ", "ᆍ", "ᆎ", "ᆏ", "ᆐ", "ᆑ", "ᆒ", "ᆓ", "ᆔ", "ᆕ", "ᆖ", "ᆗ", "ᆘ", "ᆙ", "ᆚ", "ᆛ",
    "ᆜ", "ᆝ", "ᆞ", "ᆟ", "ᆠ", "ᆡ", "ᆢ", "ᆣ", "ᆤ", "ᆥ", "ᆦ", "ᆧ", "ᆨ", "ᆩ", "ᆪ", "ᆫ", "ᆬ", "ᆭ", "ᆮ",
    "ᆯ", "ᆰ", "ᆱ", "ᆲ", "ᆳ", "ᆴ", "ᆵ", "ᆶ", "ᆷ", "ᆸ", "ᆹ", "ᆺ", "ᆻ", "ᆼ", "ᆽ", "ᆾ", "ᆿ", "ᇀ", "ᇁ",
    "ᇂ", "ᇃ", "ᇄ", "ᇅ", "ᇆ", "ᇇ", "ᇈ", "ᇉ", "ᇊ", "ᇋ", "ᇌ", "ᇍ", "ᇎ", "ᇏ", "ᇐ", "ᇑ", "ᇒ", "ᇓ", "ᇔ",
    "ᇕ", "ᇖ", "ᇗ", "ᇘ", "ᇙ", "ᇚ", "ᇛ", "ᇜ", "ᇝ", "ᇞ", "ᇟ", "ᇠ", "ᇡ", "ᇢ", "ᇣ", "ᇤ", "ᇥ", "ᇦ", "ᇧ",
    "ᇨ", "ᇩ", "ᇪ", "ᇫ", "ᇬ", "ᇭ", "ᇮ", "ᇯ", "ᇰ", "ᇱ", "ᇲ", "ᇳ", "ᇴ", "ᇵ", "ᇶ", "ᇷ", "ᇸ", "ᇹ", "ᇺ",
    "ᇻ", "ᇼ", "ᇽ", "ᇾ", "ᇿ", "U+1200", "U+1201", "U+1202", "U+1203", "U+1204", "U+1205", "U+1206",
    "U+1207", "U+1208", "U+1209", "U+120A", "U+120B", "U+120C", "U+120D", "U+120E", "U+120F",
    "U+1210", "U+1211", "U+1212", "U+1213", "U+1214", "U+1215", "U+1216", "U+1217", "U+1218",
    "U+1219", "U+121A", "U+121B", "U+121C", "U+121D", "U+121E", "U+121F", "U+1220", "U+1221",
    "U+1222", "U+1223", "U+1224", "U+1225", "U+1226", "U+1227", "U+1228", "U+1229", "U+122A",
    "U+122B", "U+122C", "U+122D", "U+122E", "U+122F", "U+1230", "U+1231", "U+1232", "U+1233",
    "U+1234", "U+1235", "U+1236", "U+1237", "U+1238", "U+1239", "U+123A", "U+123B", "U+123C",
    "U+123D", "U+123E", "U+123F", "U+1240", "U+1241", "U+1242", "U+1243", "U+1244", "U+1245",
    "U+1246", "U+1247", "U+1248", "U+124A", "U+124B", "U+124C", "U+124D", "U+1250", "U+1251",
    "U+1252", "U+1253", "U+1254", "U+1255", "U+1256", "U+1258", "U+125A", "U+125B", "U+125C",
    "U+125D", "U+1260", "U+1261", "U+1262", "U+1263", "U+1264", "U+1265", "U+1266", "U+1267",
    "U+1268", "U+1269", "U+126A", "U+126B", "U+126C", "U+126D", "U+126E", "U+126F", "U+1270",
    "U+1271", "U+1272", "U+1273", "U+1274", "U+1275", "U+1276", "U+1277", "U+1278", "U+1279",
    "U+127A", "U+127B", "U+127C", "U+127D", "U+127E", "U+127F", "ኀ", "ኁ", "ኂ", "ኃ", "ኄ", "ኅ", "ኆ",
    "ኇ", "ኈ", "ኊ", "ኋ", "ኌ", "ኍ", "ነ", "ኑ", "ኒ", "ና", "ኔ", "ን", "ኖ", "ኗ", "ኘ", "ኙ", "ኚ", "ኛ", "ኜ",
    "ኝ", "ኞ", "ኟ", "አ", "ኡ", "ኢ", "ኣ", "ኤ", "እ", "ኦ", "ኧ", "ከ", "ኩ", "ኪ", "ካ", "ኬ", "ክ", "ኮ", "ኯ",
    "ኰ", "ኲ", "ኳ", "ኴ", "ኵ", "ኸ", "ኹ", "ኺ", "ኻ", "ኼ", "ኽ", "ኾ", "ዀ", "ዂ", "ዃ", "ዄ", "ዅ", "ወ", "ዉ",
    "ዊ", "ዋ", "ዌ", "ው", "ዎ", "ዏ", "ዐ", "ዑ", "ዒ", "ዓ", "ዔ", "ዕ", "ዖ", "ዘ", "ዙ", "ዚ", "ዛ", "ዜ", "ዝ",
    "ዞ", "ዟ", "ዠ", "ዡ", "ዢ", "ዣ", "ዤ", "ዥ", "ዦ", "ዧ", "የ", "ዩ", "ዪ", "ያ", "ዬ", "ይ", "ዮ", "ዯ", "ደ",
    "ዱ", "ዲ", "ዳ", "ዴ", "ድ", "ዶ", "ዷ", "ዸ", "ዹ", "ዺ", "ዻ", "ዼ", "ዽ", "ዾ", "ዿ", "U+1300", "U+1301",
    "U+1302", "U+1303", "U+1304", "U+1305", "U+1306", "U+1307", "U+1308", "U+1309", "U+130A",
    "U+130B", "U+130C", "U+130D", "U+130E", "U+130F", "U+1310", "U+1312", "U+1313", "U+1314",
    "U+1315", "U+1318", "U+1319", "U+131A", "U+131B", "U+131C", "U+131D", "U+131E", "U+131F",
    "U+1320", "U+1321", "U+1322", "U+1323", "U+1324", "U+1325", "U+1326", "U+1327", "U+1328",
    "U+1329", "U+132A", "U+132B", "U+132C", "U+132D", "U+132E", "U+132F", "U+1330", "U+1331",
    "U+1332", "U+1333", "U+1334", "U+1335", "U+1336", "U+1337", "U+1338", "U+1339", "U+133A",
    "U+133B", "U+133C", "U+133D", "U+133E", "U+133F", "U+1340", "U+1341", "U+1342", "U+1343",
    "U+1344", "U+1345", "U+1346", "U+1347", "U+1348", "U+1349", "U+134A", "U+134B", "U+134C",
    "U+134D", "U+134E", "U+134F", "U+1350", "U+1351", "U+1352", "U+1353", "U+1354", "U+1355",
    "U+1356", "U+1357", "U+1358", "U+1359", "U+135A", "U+1369", "U+136A", "U+136B", "U+136C",
    "U+136D", "U+136E", "U+136F", "U+1370", "U+1371", "U+1372", "U+1373", "U+1374", "U+1375",
    "U+1376", "U+1377", "U+1378", "U+1379", "U+137A", "U+137B", "U+137C", "ᎀ", "ᎁ", "ᎂ", "ᎃ", "ᎄ",
    "ᎅ", "ᎆ", "ᎇ", "ᎈ", "ᎉ", "ᎊ", "ᎋ", "ᎌ", "ᎍ", "ᎎ", "ᎏ", "Ꭰ", "Ꭱ", "Ꭲ", "Ꭳ", "Ꭴ", "Ꭵ", "Ꭶ", "Ꭷ",
    "Ꭸ", "Ꭹ", "Ꭺ", "Ꭻ", "Ꭼ", "Ꭽ", "Ꭾ", "Ꭿ", "Ꮀ", "Ꮁ", "Ꮂ", "Ꮃ", "Ꮄ", "Ꮅ", "Ꮆ", "Ꮇ", "Ꮈ", "Ꮉ", "Ꮊ",
    "Ꮋ", "Ꮌ", "Ꮍ", "Ꮎ", "Ꮏ", "Ꮐ", "Ꮑ", "Ꮒ", "Ꮓ", "Ꮔ", "Ꮕ", "Ꮖ", "Ꮗ", "Ꮘ", "Ꮙ", "Ꮚ", "Ꮛ", "Ꮜ", "Ꮝ",
    "Ꮞ", "Ꮟ", "Ꮠ", "Ꮡ", "Ꮢ", "Ꮣ", "Ꮤ", "Ꮥ", "Ꮦ", "Ꮧ", "Ꮨ", "Ꮩ", "Ꮪ", "Ꮫ", "Ꮬ", "Ꮭ", "Ꮮ", "Ꮯ", "Ꮰ",
    "Ꮱ", "Ꮲ", "Ꮳ", "Ꮴ", "Ꮵ", "Ꮶ", "Ꮷ", "Ꮸ", "Ꮹ", "Ꮺ", "Ꮻ", "Ꮼ", "Ꮽ", "Ꮾ", "Ꮿ", "Ᏸ", "Ᏹ", "Ᏺ", "Ᏻ",
    "Ᏼ", "Ᏽ", "ᏸ", "ᏹ", "ᏺ", "ᏻ", "ᏼ", "ᏽ", "U+1401", "U+1402", "U+1403", "U+1404", "U+1405",
    "U+1406", "U+1407", "U+1408", "U+1409", "U+140A", "U+140B", "U+140C", "U+140D", "U+140E",
    "U+140F", "U+1410", "U+1411", "U+1412", "U+1413", "U+1414", "U+1415", "U+1416", "U+1417",
    "U+1418", "U+1419", "U+141A", "U+141B", "U+141C", "U+141D", "U+141E", "U+141F", "U+1420",
    "U+1421", "U+1422", "U+1423", "U+1424", "U+1425", "U+1426", "U+1427", "U+1428", "U+1429",
    "U+142A", "U+142B", "U+142C", "U+142D", "U+142E", "U+142F", "U+1430", "U+1431", "U+1432",
    "U+1433", "U+1434", "U+1435", "U+1436", "U+1437", "U+1438", "U+1439", "U+143A", "U+143B",
    "U+143C", "U+143D", "U+143E", "U+143F", "U+1440", "U+1441", "U+1442", "U+1443", "U+1444",
    "U+1445", "U+1446", "U+1447", "U+1448", "U+1449", "U+144A", "U+144B", "U+144C", "U+144D",
    "U+144E", "U+144F", "U+1450", "U+1451", "U+1452", "U+1453", "U+1454", "U+1455", "U+1456",
    "U+1457", "U+1458", "U+1459", "U+145A", "U+145B", "U+145C", "U+145D", "U+145E", "U+145F",
    "U+1460", "U+1461", "U+1462", "U+1463", "U+1464", "U+1465", "U+1466", "U+1467", "U+1468",
    "U+1469", "U+146A", "U+146B", "U+146C", "U+146D", "U+146E", "U+146F", "U+1470", "U+1471",
    "U+1472", "U+1473", "U+1474", "U+1475", "U+1476", "U+1477", "U+1478", "U+1479", "U+147A",
    "U+147B", "U+147C", "U+147D", "U+147E", "U+147F", "ᒀ", "ᒁ", "ᒂ", "ᒃ", "ᒄ", "ᒅ", "ᒆ", "ᒇ", "ᒈ",
    "ᒉ", "ᒊ", "ᒋ", "ᒌ", "ᒍ", "ᒎ", "ᒏ", "ᒐ", "ᒑ", "ᒒ", "ᒓ", "ᒔ", "ᒕ", "ᒖ", "ᒗ", "ᒘ", "ᒙ", "ᒚ", "ᒛ",
    "ᒜ", "ᒝ", "ᒞ", "ᒟ", "ᒠ", "ᒡ", "ᒢ", "ᒣ", "ᒤ", "ᒥ", "ᒦ", "ᒧ", "ᒨ", "ᒩ", "ᒪ", "ᒫ", "ᒬ", "ᒭ", "ᒮ",
    "ᒯ", "ᒰ", "ᒱ", "ᒲ", "ᒳ", "ᒴ", "ᒵ", "ᒶ", "ᒷ", "ᒸ", "ᒹ", "ᒺ", "ᒻ", "ᒼ", "ᒽ", "ᒾ", "ᒿ", "ᓀ", "ᓁ",
    "ᓂ", "ᓃ", "ᓄ", "ᓅ", "ᓆ", "ᓇ", "ᓈ", "ᓉ", "ᓊ", "ᓋ", "ᓌ", "ᓍ", "ᓎ", "ᓏ", "ᓐ", "ᓑ", "ᓒ", "ᓓ", "ᓔ",
    "ᓕ", "ᓖ", "ᓗ", "ᓘ", "ᓙ", "ᓚ", "ᓛ", "ᓜ", "ᓝ", "ᓞ", "ᓟ", "ᓠ", "ᓡ", "ᓢ", "ᓣ", "ᓤ", "ᓥ", "ᓦ", "ᓧ",
    "ᓨ", "ᓩ", "ᓪ", "ᓫ", "ᓬ", "ᓭ", "ᓮ", "ᓯ", "ᓰ", "ᓱ", "ᓲ", "ᓳ", "ᓴ", "ᓵ", "ᓶ", "ᓷ", "ᓸ", "ᓹ", "ᓺ",
    "ᓻ", "ᓼ", "ᓽ", "ᓾ", "ᓿ", "U+1500", "U+1501", "U+1502", "U+1503", "U+1504", "U+1505", "U+1506",
    "U+1507", "U+1508", "U+1509", "U+150A", "U+150B", "U+150C", "U+150D", "U+150E", "U+150F",
    "U+1510", "U+1511", "U+1512", "U+1513", "U+1514", "U+1515", "U+1516", "U+1517", "U+1518",
    "U+1519", "U+151A", "U+151B", "U+151C", "U+151D", "U+151E", "U+151F", "U+1520", "U+1521",
    "U+1522", "U+1523", "U+1524", "U+1525", "U+1526", "U+1527", "U+1528", "U+1529", "U+152A",
    "U+152B", "U+152C", "U+152D", "U+152E", "U+152F", "U+1530", "U+1531", "U+1532", "U+1533",
    "U+1534", "U+1535", "U+1536", "U+1537", "U+1538", "U+1539", "U+153A", "U+153B", "U+153C",
    "U+153D", "U+153E", "U+153F", "U+1540", "U+1541", "U+1542", "U+1543", "U+1544", "U+1545",
    "U+1546", "U+1547", "U+1548", "U+1549", "U+154A", "U+154B", "U+154C", "U+154D", "U+154E",
    "U+154F", "U+1550", "U+1551", "U+1552", "U+1553", "U+1554", "U+1555", "U+1556", "U+1557",
    "U+1558", "U+1559", "U+155A", "U+155B", "U+155C", "U+155D", "U+155E", "U+155F", "U+1560",
    "U+1561", "U+1562", "U+1563", "U+1564", "U+1565", "U+1566", "U+1567", "U+1568", "U+1569",
    "U+156A", "U+156B", "U+156C", "U+156D", "U+156E", "U+156F", "U+1570", "U+1571", "U+1572",
    "U+1573", "U+1574", "U+1575", "U+1576", "U+1577", "U+1578", "U+1579", "U+157A", "U+157B",
    "U+157C", "U+157D", "U+157E", "U+157F", "ᖀ", "ᖁ", "ᖂ", "ᖃ", "ᖄ", "ᖅ", "ᖆ", "ᖇ", "ᖈ", "ᖉ", "ᖊ",
    "ᖋ", "ᖌ", "ᖍ", "ᖎ", "ᖏ", "ᖐ", "ᖑ", "ᖒ", "ᖓ", "ᖔ", "ᖕ", "ᖖ", "ᖗ", "ᖘ", "ᖙ", "ᖚ", "ᖛ", "ᖜ", "ᖝ",
    "ᖞ", "ᖟ", "ᖠ", "ᖡ", "ᖢ", "ᖣ", "ᖤ", "ᖥ", "ᖦ", "ᖧ", "ᖨ", "ᖩ", "ᖪ", "ᖫ", "ᖬ", "ᖭ", "ᖮ", "ᖯ", "ᖰ",
    "ᖱ", "ᖲ", "ᖳ", "ᖴ", "ᖵ", "ᖶ", "ᖷ", "ᖸ", "ᖹ", "ᖺ", "ᖻ", "ᖼ", "ᖽ", "ᖾ", "ᖿ", "ᗀ", "ᗁ", "ᗂ", "ᗃ",
    "ᗄ", "ᗅ", "ᗆ", "ᗇ", "ᗈ", "ᗉ", "ᗊ", "ᗋ", "ᗌ", "ᗍ", "ᗎ", "ᗏ", "ᗐ", "ᗑ", "ᗒ", "ᗓ", "ᗔ", "ᗕ", "ᗖ",
    "ᗗ", "ᗘ", "ᗙ", "ᗚ", "ᗛ", "ᗜ", "ᗝ", "ᗞ", "ᗟ", "ᗠ", "ᗡ", "ᗢ", "ᗣ", "ᗤ", "ᗥ", "ᗦ", "ᗧ", "ᗨ", "ᗩ",
    "ᗪ", "ᗫ", "ᗬ", "ᗭ", "ᗮ", "ᗯ", "ᗰ", "ᗱ", "ᗲ", "ᗳ", "ᗴ", "ᗵ", "ᗶ", "ᗷ", "ᗸ", "ᗹ", "ᗺ", "ᗻ", "ᗼ",
    "ᗽ", "ᗾ", "ᗿ", "U+1600", "U+1601", "U+1602", "U+1603", "U+1604", "U+1605", "U+1606", "U+1607",
    "U+1608", "U+1609", "U+160A", "U+160B", "U+160C", "U+160D", "U+160E", "U+160F", "U+1610",
    "U+1611", "U+1612", "U+1613", "U+1614", "U+1615", "U+1616", "U+1617", "U+1618", "U+1619",
    "U+161A", "U+161B", "U+161C", "U+161D", "U+161E", "U+161F", "U+1620", "U+1621", "U+1622",
    "U+1623", "U+1624", "U+1625", "U+1626", "U+1627", "U+1628", "U+1629", "U+162A", "U+162B",
    "U+162C", "U+162D", "U+162E", "U+162F", "U+1630", "U+1631", "U+1632", "U+1633", "U+1634",
    "U+1635", "U+1636", "U+1637", "U+1638", "U+1639", "U+163A", "U+163B", "U+163C", "U+163D",
    "U+163E", "U+163F", "U+1640", "U+1641", "U+1642", "U+1643", "U+1644", "U+1645", "U+1646",
    "U+1647", "U+1648", "U+1649", "U+164A", "U+164B", "U+164C", "U+164D", "U+164E", "U+164F",
    "U+1650", "U+1651", "U+1652", "U+1653", "U+1654", "U+1655", "U+1656", "U+1657", "U+1658",
    "U+1659", "U+165A", "U+165B", "U+165C", "U+165D", "U+165E", "U+165F", "U+1660", "U+1661",
    "U+1662", "U+1663", "U+1664", "U+1665", "U+1666", "U+1667", "U+1668", "U+1669", "U+166A",
    "U+166B", "U+166C", "U+166F", "U+1670", "U+1671", "U+1672", "U+1673", "U+1674", "U+1675",
    "U+1676", "U+1677", "U+1678", "U+1679", "U+167A", "U+167B", "U+167C", "U+167D", "U+167E",
    "U+167F", "ᚁ", "ᚂ", "ᚃ", "ᚄ", "ᚅ", "ᚆ", "ᚇ", "ᚈ", "ᚉ", "ᚊ", "ᚋ", "ᚌ", "ᚍ", "ᚎ", "ᚏ", "ᚐ", "ᚑ",
    "ᚒ", "ᚓ", "ᚔ", "ᚕ", "ᚖ", "ᚗ", "ᚘ", "ᚙ", "ᚚ", "ᚠ", "ᚡ", "ᚢ", "ᚣ", "ᚤ", "ᚥ", "ᚦ", "ᚧ", "ᚨ", "ᚩ",
    "ᚪ", "ᚫ", "ᚬ", "ᚭ", "ᚮ", "ᚯ", "ᚰ", "ᚱ", "ᚲ", "ᚳ", "ᚴ", "ᚵ", "ᚶ", "ᚷ", "ᚸ", "ᚹ", "ᚺ", "ᚻ", "ᚼ",
    "ᚽ", "ᚾ", "ᚿ", "ᛀ", "ᛁ", "ᛂ", "ᛃ", "ᛄ", "ᛅ", "ᛆ", "ᛇ", "ᛈ", "ᛉ", "ᛊ", "ᛋ", "ᛌ", "ᛍ", "ᛎ", "ᛏ",
    "ᛐ", "ᛑ", "ᛒ", "ᛓ", "ᛔ", "ᛕ", "ᛖ", "ᛗ", "ᛘ", "ᛙ", "ᛚ", "ᛛ", "ᛜ", "ᛝ", "ᛞ", "ᛟ", "ᛠ", "ᛡ", "ᛢ",
    "ᛣ", "ᛤ", "ᛥ", "ᛦ", "ᛧ", "ᛨ", "ᛩ", "ᛪ", "ᛮ", "ᛯ", "ᛰ", "ᛱ", "ᛲ", "ᛳ", "ᛴ", "ᛵ", "ᛶ", "ᛷ", "ᛸ",
    "U+1700", "U+1701", "U+1702", "U+1703", "U+1704", "U+1705", "U+1706", "U+1707", "U+1708",
    "U+1709", "U+170A", "U+170B", "U+170C", "U+170D", "U+170E", "U+170F", "U+1710", "U+1711",
    "U+171F", "U+1720", "U+1721", "U+1722", "U+1723", "U+1724", "U+1725", "U+1726", "U+1727",
    "U+1728", "U+1729", "U+172A", "U+172B", "U+172C", "U+172D", "U+172E", "U+172F", "U+1730",
    "U+1731", "U+1740", "U+1741", "U+1742", "U+1743", "U+1744", "U+1745", "U+1746", "U+1747",
    "U+1748", "U+1749", "U+174A", "U+174B", "U+174C", "U+174D", "U+174E", "U+174F", "U+1750",
    "U+1751", "U+1760", "U+1761", "U+1762", "U+1763", "U+1764", "U+1765", "U+1766", "U+1767",
    "U+1768", "U+1769", "U+176A", "U+176B", "U+176C", "U+176E", "U+176F", "U+1770", "ក", "ខ", "គ",
    "ឃ", "ង", "ច", "ឆ", "ជ", "ឈ", "ញ", "ដ", "ឋ", "ឌ", "ឍ", "ណ", "ត", "ថ", "ទ", "ធ", "ន", "ប", "ផ",
    "ព", "ភ", "ម", "យ", "រ", "ល", "វ", "ឝ", "ឞ", "ស", "ហ", "ឡ", "អ", "ឣ", "ឤ", "ឥ", "ឦ", "ឧ", "ឨ",
    "ឩ", "ឪ", "ឫ", "ឬ", "ឭ", "ឮ", "ឯ", "ឰ", "ឱ", "ឲ", "ឳ", "ៗ", "ៜ", "០", "១", "២", "៣", "៤", "៥",
    "៦", "៧", "៨", "៩", "៰", "៱", "៲", "៳", "៴", "៵", "៶", "៷", "៸", "៹", "U+1810", "U+1811",
    "U+1812", "U+1813", "U+1814", "U+1815", "U+1816", "U+1817", "U+1818", "U+1819", "U+1820",
    "U+1821", "U+1822", "U+1823", "U+1824", "U+1825", "U+1826", "U+1827", "U+1828", "U+1829",
    "U+182A", "U+182B", "U+182C", "U+182D", "U+182E", "U+182F", "U+1830", "U+1831", "U+1832",
    "U+1833", "U+1834", "U+1835", "U+1836", "U+1837", "U+1838", "U+1839", "U+183A", "U+183B",
    "U+183C", "U+183D", "U+183E", "U+183F", "U+1840", "U+1841", "U+1842", "U+1843", "U+1844",
    "U+1845", "U+1846", "U+1847", "U+1848", "U+1849", "U+184A", "U+184B", "U+184C", "U+184D",
    "U+184E", "U+184F", "U+1850", "U+1851", "U+1852", "U+1853", "U+1854", "U+1855", "U+1856",
    "U+1857", "U+1858", "U+1859", "U+185A", "U+185B", "U+185C", "U+185D", "U+185E", "U+185F",
    "U+1860", "U+1861", "U+1862", "U+1863", "U+1864", "U+1865", "U+1866", "U+1867", "U+1868",
    "U+1869", "U+186A", "U+186B", "U+186C", "U+186D", "U+186E", "U+186F", "U+1870", "U+1871",
    "U+1872", "U+1873", "U+1874", "U+1875", "U+1876", "U+1877", "U+1878", "ᢀ", "ᢁ", "ᢂ", "ᢃ", "ᢄ",
    "ᢇ", "ᢈ", "ᢉ", "ᢊ", "ᢋ", "ᢌ", "ᢍ", "ᢎ", "ᢏ", "ᢐ", "ᢑ", "ᢒ", "ᢓ", "ᢔ", "ᢕ", "ᢖ", "ᢗ", "ᢘ", "ᢙ",
    "ᢚ", "ᢛ", "ᢜ", "ᢝ", "ᢞ", "ᢟ", "ᢠ", "ᢡ", "ᢢ", "ᢣ", "ᢤ", "ᢥ", "ᢦ", "ᢧ", "ᢨ", "ᢪ", "ᢰ", "ᢱ", "ᢲ",
    "ᢳ", "ᢴ", "ᢵ", "ᢶ", "ᢷ", "ᢸ", "ᢹ", "ᢺ", "ᢻ", "ᢼ", "ᢽ", "ᢾ", "ᢿ", "ᣀ", "ᣁ", "ᣂ", "ᣃ", "ᣄ", "ᣅ",
    "ᣆ", "ᣇ", "ᣈ", "ᣉ", "ᣊ", "ᣋ", "ᣌ", "ᣍ", "ᣎ", "ᣏ", "ᣐ", "ᣑ", "ᣒ", "ᣓ", "ᣔ", "ᣕ", "ᣖ", "ᣗ", "ᣘ",
    "ᣙ", "ᣚ", "ᣛ", "ᣜ", "ᣝ", "ᣞ", "ᣟ", "ᣠ", "ᣡ", "ᣢ", "ᣣ", "ᣤ", "ᣥ", "ᣦ", "ᣧ", "ᣨ", "ᣩ", "ᣪ", "ᣫ",
    "ᣬ", "ᣭ", "ᣮ", "ᣯ", "ᣰ", "ᣱ", "ᣲ", "ᣳ", "ᣴ", "ᣵ", "U+1900", "U+1901", "U+1902", "U+1903",
    "U+1904", "U+1905", "U+1906", "U+1907", "U+1908", "U+1909", "U+190A", "U+190B", "U+190C",
    "U+190D", "U+190E", "U+190F", "U+1910", "U+1911", "U+1912", "U+1913", "U+1914", "U+1915",
    "U+1916", "U+1917", "U+1918", "U+1919", "U+191A", "U+191B", "U+191C", "U+191D", "U+191E",
    "U+1946", "U+1947", "U+1948", "U+1949", "U+194A", "U+194B", "U+194C", "U+194D", "U+194E",
    "U+194F", "U+1950", "U+1951", "U+1952", "U+1953", "U+1954", "U+1955", "U+1956", "U+1957",
    "U+1958", "U+1959", "U+195A", "U+195B", "U+195C", "U+195D", "U+195E", "U+195F", "U+1960",
    "U+1961", "U+1962", "U+1963", "U+1964", "U+1965", "U+1966", "U+1967", "U+1968", "U+1969",
    "U+196A", "U+196B", "U+196C", "U+196D", "U+1970", "U+1971", "U+1972", "U+1973", "U+1974", "ᦀ",
    "ᦁ", "ᦂ", "ᦃ", "ᦄ", "ᦅ", "ᦆ", "ᦇ", "ᦈ", "ᦉ", "ᦊ", "ᦋ", "ᦌ", "ᦍ", "ᦎ", "ᦏ", "ᦐ", "ᦑ", "ᦒ", "ᦓ",
    "ᦔ", "ᦕ", "ᦖ", "ᦗ", "ᦘ", "ᦙ", "ᦚ", "ᦛ", "ᦜ", "ᦝ", "ᦞ", "ᦟ", "ᦠ", "ᦡ", "ᦢ", "ᦣ", "ᦤ", "ᦥ", "ᦦ",
    "ᦧ", "ᦨ", "ᦩ", "ᦪ", "ᦫ", "ᦰ", "ᦱ", "ᦲ", "ᦳ", "ᦴ", "ᦵ", "ᦶ", "ᦷ", "ᦸ", "ᦹ", "ᦺ", "ᦻ", "ᦼ", "ᦽ",
    "ᦾ", "ᦿ", "ᧀ", "ᧁ", "ᧂ", "ᧃ", "ᧄ", "ᧅ", "ᧆ", "ᧇ", "ᧈ", "ᧉ", "᧐", "᧑", "᧒", "᧓", "᧔", "᧕", "᧖",
    "᧗", "᧘", "᧙", "᧚", "U+1A00", "U+1A01", "U+1A02", "U+1A03", "U+1A04", "U+1A05", "U+1A06",
    "U+1A07", "U+1A08", "U+1A09", "U+1A0A", "U+1A0B", "U+1A0C", "U+1A0D", "U+1A0E", "U+1A0F",
    "U+1A10", "U+1A11", "U+1A12", "U+1A13", "U+1A14", "U+1A15", "U+1A16", "U+1A20", "U+1A21",
    "U+1A22", "U+1A23", "U+1A24", "U+1A25", "U+1A26", "U+1A27", "U+1A28", "U+1A29", "U+1A2A",
    "U+1A2B", "U+1A2C", "U+1A2D", "U+1A2E", "U+1A2F", "U+1A30", "U+1A31", "U+1A32", "U+1A33",
    "U+1A34", "U+1A35", "U+1A36", "U+1A37", "U+1A38", "U+1A39", "U+1A3A", "U+1A3B", "U+1A3C",
    "U+1A3D", "U+1A3E", "U+1A3F", "U+1A40", "U+1A41", "U+1A42", "U+1A43", "U+1A44", "U+1A45",
    "U+1A46", "U+1A47", "U+1A48", "U+1A49", "U+1A4A", "U+1A4B", "U+1A4C", "U+1A4D", "U+1A4E",
    "U+1A4F", "U+1A50", "U+1A51", "U+1A52", "U+1A53", "U+1A54", "᪀", "᪁", "᪂", "᪃", "᪄", "᪅", "᪆",
    "᪇", "᪈", "᪉", "᪐", "᪑", "᪒", "᪓", "᪔", "᪕", "᪖", "᪗", "᪘", "᪙", "ᪧ", "U+1B05", "U+1B06",
    "U+1B07", "U+1B08", "U+1B09", "U+1B0A", "U+1B0B", "U+1B0C", "U+1B0D", "U+1B0E", "U+1B0F",
    "U+1B10", "U+1B11", "U+1B12", "U+1B13", "U+1B14", "U+1B15", "U+1B16", "U+1B17", "U+1B18",
    "U+1B19", "U+1B1A", "U+1B1B", "U+1B1C", "U+1B1D", "U+1B1E", "U+1B1F", "U+1B20", "U+1B21",
    "U+1B22", "U+1B23", "U+1B24", "U+1B25", "U+1B26", "U+1B27", "U+1B28", "U+1B29", "U+1B2A",
    "U+1B2B", "U+1B2C", "U+1B2D", "U+1B2E", "U+1B2F", "U+1B30", "U+1B31", "U+1B32", "U+1B33",
    "U+1B45", "U+1B46", "U+1B47", "U+1B48", "U+1B49", "U+1B4A", "U+1B4B", "U+1B4C", "U+1B50",
    "U+1B51", "U+1B52", "U+1B53", "U+1B54", "U+1B55", "U+1B56", "U+1B57", "U+1B58", "U+1B59", "ᮃ",
    "ᮄ", "ᮅ", "ᮆ", "ᮇ", "ᮈ", "ᮉ", "ᮊ", "ᮋ", "ᮌ", "ᮍ", "ᮎ", "ᮏ", "ᮐ", "ᮑ", "ᮒ", "ᮓ", "ᮔ", "ᮕ", "ᮖ",
    "ᮗ", "ᮘ", "ᮙ", "ᮚ", "ᮛ", "ᮜ", "ᮝ", "ᮞ", "ᮟ", "ᮠ", "ᮮ", "ᮯ", "᮰", "᮱", "᮲", "᮳", "᮴", "᮵", "᮶",
    "᮷", "᮸", "᮹", "ᮺ", "ᮻ", "ᮼ", "ᮽ", "ᮾ", "ᮿ", "ᯀ", "ᯁ", "ᯂ", "ᯃ", "ᯄ", "ᯅ", "ᯆ", "ᯇ", "ᯈ", "ᯉ",
    "ᯊ", "ᯋ", "ᯌ", "ᯍ", "ᯎ", "ᯏ", "ᯐ", "ᯑ", "ᯒ", "ᯓ", "ᯔ", "ᯕ", "ᯖ", "ᯗ", "ᯘ", "ᯙ", "ᯚ", "ᯛ", "ᯜ",
    "ᯝ", "ᯞ", "ᯟ", "ᯠ", "ᯡ", "ᯢ", "ᯣ", "ᯤ", "ᯥ", "U+1C00", "U+1C01", "U+1C02", "U+1C03", "U+1C04",
    "U+1C05", "U+1C06", "U+1C07", "U+1C08", "U+1C09", "U+1C0A", "U+1C0B", "U+1C0C", "U+1C0D",
    "U+1C0E", "U+1C0F", "U+1C10", "U+1C11", "U+1C12", "U+1C13", "U+1C14", "U+1C15", "U+1C16",
    "U+1C17", "U+1C18", "U+1C19", "U+1C1A", "U+1C1B", "U+1C1C", "U+1C1D", "U+1C1E", "U+1C1F",
    "U+1C20", "U+1C21", "U+1C22", "U+1C23", "U+1C40", "U+1C41", "U+1C42", "U+1C43", "U+1C44",
    "U+1C45", "U+1C46", "U+1C47", "U+1C48", "U+1C49", "U+1C4D", "U+1C4E", "U+1C4F", "U+1C50",
    "U+1C51", "U+1C52", "U+1C53", "U+1C54", "U+1C55", "U+1C56", "U+1C57", "U+1C58", "U+1C59",
    "U+1C5A", "U+1C5B", "U+1C5C", "U+1C5D", "U+1C5E", "U+1C5F", "U+1C60", "U+1C61", "U+1C62",
    "U+1C63", "U+1C64", "U+1C65", "U+1C66", "U+1C67", "U+1C68", "U+1C69", "U+1C6A", "U+1C6B",
    "U+1C6C", "U+1C6D", "U+1C6E", "U+1C6F", "U+1C70", "U+1C71", "U+1C72", "U+1C73", "U+1C74",
    "U+1C75", "U+1C76", "U+1C77", "U+1C78", "U+1C79", "U+1C7A", "U+1C7B", "U+1C7C", "U+1C7D", "ᲀ",
    "ᲁ", "ᲂ", "ᲃ", "ᲄ", "ᲅ", "ᲆ", "ᲇ", "ᲈ", "Ა", "Ბ", "Გ", "Დ", "Ე", "Ვ", "Ზ", "Თ", "Ი", "Კ", "Ლ",
    "Მ", "Ნ", "Ო", "Პ", "Ჟ", "Რ", "Ს", "Ტ", "Უ", "Ფ", "Ქ", "Ღ", "Ყ", "Შ", "Ჩ", "Ც", "Ძ", "Წ", "Ჭ",
    "Ხ", "Ჯ", "Ჰ", "Ჱ", "Ჲ", "Ჳ", "Ჴ", "Ჵ", "Ჶ", "Ჷ", "Ჸ", "Ჹ", "Ჺ", "Ჽ", "Ჾ", "Ჿ", "ᳩ", "ᳪ", "ᳫ",
    "ᳬ", "ᳮ", "ᳯ", "ᳰ", "ᳱ", "ᳲ", "ᳳ", "ᳵ", "ᳶ", "ᳺ", "U+1D00", "U+1D01", "U+1D02", "U+1D03",
    "U+1D04", "U+1D05", "U+1D06", "U+1D07", "U+1D08", "U+1D09", "U+1D0A", "U+1D0B", "U+1D0C",
    "U+1D0D", "U+1D0E", "U+1D0F", "U+1D10", "U+1D11", "U+1D12", "U+1D13", "U+1D14", "U+1D15",
    "U+1D16", "U+1D17", "U+1D18", "U+1D19", "U+1D1A", "U+1D1B", "U+1D1C", "U+1D1D", "U+1D1E",
    "U+1D1F", "U+1D20", "U+1D21", "U+1D22", "U+1D23", "U+1D24", "U+1D25", "U+1D26", "U+1D27",
    "U+1D28", "U+1D29", "U+1D2A", "U+1D2B", "U+1D2C", "U+1D2D", "U+1D2E", "U+1D2F", "U+1D30",
    "U+1D31", "U+1D32", "U+1D33", "U+1D34", "U+1D35", "U+1D36", "U+1D37", "U+1D38", "U+1D39",
    "U+1D3A", "U+1D3B", "U+1D3C", "U+1D3D", "U+1D3E", "U+1D3F", "U+1D40", "U+1D41", "U+1D42",
    "U+1D43", "U+1D44", "U+1D45", "U+1D46", "U+1D47", "U+1D48", "U+1D49", "U+1D4A", "U+1D4B",
    "U+1D4C", "U+1D4D", "U+1D4E", "U+1D4F", "U+1D50", "U+1D51", "U+1D52", "U+1D53", "U+1D54",
    "U+1D55", "U+1D56", "U+1D57", "U+1D58", "U+1D59", "U+1D5A", "U+1D5B", "U+1D5C", "U+1D5D",
    "U+1D5E", "U+1D5F", "U+1D60", "U+1D61", "U+1D62", "U+1D63", "U+1D64", "U+1D65", "U+1D66",
    "U+1D67", "U+1D68", "U+1D69", "U+1D6A", "U+1D6B", "U+1D6C", "U+1D6D", "U+1D6E", "U+1D6F",
    "U+1D70", "U+1D71", "U+1D72", "U+1D73", "U+1D74", "U+1D75", "U+1D76", "U+1D77", "U+1D78",
    "U+1D79", "U+1D7A", "U+1D7B", "U+1D7C", "U+1D7D", "U+1D7E", "U+1D7F", "ᶀ", "ᶁ", "ᶂ", "ᶃ", "ᶄ",
    "ᶅ", "ᶆ", "ᶇ", "ᶈ", "ᶉ", "ᶊ", "ᶋ", "ᶌ", "ᶍ", "ᶎ", "ᶏ", "ᶐ", "ᶑ", "ᶒ", "ᶓ", "ᶔ", "ᶕ", "ᶖ", "ᶗ",
    "ᶘ", "ᶙ", "ᶚ", "ᶛ", "ᶜ", "ᶝ", "ᶞ", "ᶟ", "ᶠ", "ᶡ", "ᶢ", "ᶣ", "ᶤ", "ᶥ", "ᶦ", "ᶧ", "ᶨ", "ᶩ", "ᶪ",
    "ᶫ", "ᶬ", "ᶭ", "ᶮ", "ᶯ", "ᶰ", "ᶱ", "ᶲ", "ᶳ", "ᶴ", "ᶵ", "ᶶ", "ᶷ", "ᶸ", "ᶹ", "ᶺ", "ᶻ", "ᶼ", "ᶽ",
    "ᶾ", "ᶿ", "U+1E00", "U+1E01", "U+1E02", "U+1E03", "U+1E04", "U+1E05", "U+1E06", "U+1E07",
    "U+1E08", "U+1E09", "U+1E0A", "U+1E0B", "U+1E0C", "U+1E0D", "U+1E0E", "U+1E0F", "U+1E10",
    "U+1E11", "U+1E12", "U+1E13", "U+1E14", "U+1E15", "U+1E16", "U+1E17", "U+1E18", "U+1E19",
    "U+1E1A", "U+1E1B", "U+1E1C", "U+1E1D", "U+1E1E", "U+1E1F", "U+1E20", "U+1E21", "U+1E22",
    "U+1E23", "U+1E24", "U+1E25", "U+1E26", "U+1E27", "U+1E28", "U+1E29", "U+1E2A", "U+1E2B",
    "U+1E2C", "U+1E2D", "U+1E2E", "U+1E2F", "U+1E30", "U+1E31", "U+1E32", "U+1E33", "U+1E34",
    "U+1E35", "U+1E36", "U+1E37", "U+1E38", "U+1E39", "U+1E3A", "U+1E3B", "U+1E3C", "U+1E3D",
    "U+1E3E", "U+1E3F", "U+1E40", "U+1E41", "U+1E42", "U+1E43", "U+1E44", "U+1E45", "U+1E46",
    "U+1E47", "U+1E48", "U+1E49", "U+1E4A", "U+1E4B", "U+1E4C", "U+1E4D", "U+1E4E", "U+1E4F",
    "U+1E50", "U+1E51", "U+1E52", "U+1E53", "U+1E54", "U+1E55", "U+1E56", "U+1E57", "U+1E58",
    "U+1E59", "U+1E5A", "U+1E5B", "U+1E5C", "U+1E5D", "U+1E5E", "U+1E5F", "U+1E60", "U+1E61",
    "U+1E62", "U+1E63", "U+1E64", "U+1E65", "U+1E66", "U+1E67", "U+1E68", "U+1E69", "U+1E6A",
    "U+1E6B", "U+1E6C", "U+1E6D", "U+1E6E", "U+1E6F", "U+1E70", "U+1E71", "U+1E72", "U+1E73",
    "U+1E74", "U+1E75", "U+1E76", "U+1E77", "U+1E78", "U+1E79", "U+1E7A", "U+1E7B", "U+1E7C",
    "U+1E7D", "U+1E7E", "U+1E7F", "Ẁ", "ẁ", "Ẃ", "ẃ", "Ẅ", "ẅ", "Ẇ", "ẇ", "Ẉ", "ẉ", "Ẋ", "ẋ", "Ẍ",
    "ẍ", "Ẏ", "ẏ", "Ẑ", "ẑ", "Ẓ", "ẓ", "Ẕ", "ẕ", "ẖ", "ẗ", "ẘ", "ẙ", "ẚ", "ẛ", "ẜ", "ẝ", "ẞ", "ẟ",
    "Ạ", "ạ", "Ả", "ả", "Ấ", "ấ", "Ầ", "ầ", "Ẩ", "ẩ", "Ẫ", "ẫ", "Ậ", "ậ", "Ắ", "ắ", "Ằ", "ằ", "Ẳ",
    "ẳ", "Ẵ", "ẵ", "Ặ", "ặ", "Ẹ", "ẹ", "Ẻ", "ẻ", "Ẽ", "ẽ", "Ế", "ế", "Ề", "ề", "Ể", "ể", "Ễ", "ễ",
    "Ệ", "ệ", "Ỉ", "ỉ", "Ị", "ị", "Ọ", "ọ", "Ỏ", "ỏ", "Ố", "ố", "Ồ", "ồ", "Ổ", "ổ", "Ỗ", "ỗ", "Ộ",
    "ộ", "Ớ", "ớ", "Ờ", "ờ", "Ở", "ở", "Ỡ", "ỡ", "Ợ", "ợ", "Ụ", "ụ", "Ủ", "ủ", "Ứ", "ứ", "Ừ", "ừ",
    "Ử", "ử", "Ữ", "ữ", "Ự", "ự", "Ỳ", "ỳ", "Ỵ", "ỵ", "Ỷ", "ỷ", "Ỹ", "ỹ", "Ỻ", "ỻ", "Ỽ", "ỽ", "Ỿ",
    "ỿ", "U+1F00", "U+1F01", "U+1F02", "U+1F03", "U+1F04", "U+1F05", "U+1F06", "U+1F07", "U+1F08",
    "U+1F09", "U+1F0A", "U+1F0B", "U+1F0C", "U+1F0D", "U+1F0E", "U+1F0F", "U+1F10", "U+1F11",
    "U+1F12", "U+1F13", "U+1F14", "U+1F15", "U+1F18", "U+1F19", "U+1F1A", "U+1F1B", "U+1F1C",
    "U+1F1D", "U+1F20", "U+1F21", "U+1F22", "U+1F23", "U+1F24", "U+1F25", "U+1F26", "U+1F27",
    "U+1F28", "U+1F29", "U+1F2A", "U+1F2B", "U+1F2C", "U+1F2D", "U+1F2E", "U+1F2F", "U+1F30",
    "U+1F31", "U+1F32", "U+1F33", "U+1F34", "U+1F35", "U+1F36", "U+1F37", "U+1F38", "U+1F39",
    "U+1F3A", "U+1F3B", "U+1F3C", "U+1F3D", "U+1F3E", "U+1F3F", "U+1F40", "U+1F41", "U+1F42",
    "U+1F43", "U+1F44", "U+1F45", "U+1F48", "U+1F49", "U+1F4A", "U+1F4B", "U+1F4C", "U+1F4D",
    "U+1F50", "U+1F51", "U+1F52", "U+1F53", "U+1F54", "U+1F55", "U+1F56", "U+1F57", "U+1F59",
    "U+1F5B", "U+1F5D", "U+1F5F", "U+1F60", "U+1F61", "U+1F62", "U+1F63", "U+1F64", "U+1F65",
    "U+1F66", "U+1F67", "U+1F68", "U+1F69", "U+1F6A", "U+1F6B", "U+1F6C", "U+1F6D", "U+1F6E",
    "U+1F6F", "U+1F70", "U+1F71", "U+1F72", "U+1F73", "U+1F74", "U+1F75", "U+1F76", "U+1F77",
    "U+1F78", "U+1F79", "U+1F7A", "U+1F7B", "U+1F7C", "U+1F7D", "ᾀ", "ᾁ", "ᾂ", "ᾃ", "ᾄ", "ᾅ", "ᾆ",
    "ᾇ", "ᾈ", "ᾉ", "ᾊ", "ᾋ", "ᾌ", "ᾍ", "ᾎ", "ᾏ", "ᾐ", "ᾑ", "ᾒ", "ᾓ", "ᾔ", "ᾕ", "ᾖ", "ᾗ", "ᾘ", "ᾙ",
    "ᾚ", "ᾛ", "ᾜ", "ᾝ", "ᾞ", "ᾟ", "ᾠ", "ᾡ", "ᾢ", "ᾣ", "ᾤ", "ᾥ", "ᾦ", "ᾧ", "ᾨ", "ᾩ", "ᾪ", "ᾫ", "ᾬ",
    "ᾭ", "ᾮ", "ᾯ", "ᾰ", "ᾱ", "ᾲ", "ᾳ", "ᾴ", "ᾶ", "ᾷ", "Ᾰ", "Ᾱ", "Ὰ", "Ά", "ᾼ", "ι", "ῂ", "ῃ", "ῄ",
    "ῆ", "ῇ", "Ὲ", "Έ", "Ὴ", "Ή", "ῌ", "ῐ", "ῑ", "ῒ", "ΐ", "ῖ", "ῗ", "Ῐ", "Ῑ", "Ὶ", "Ί", "ῠ", "ῡ",
    "ῢ", "ΰ", "ῤ", "ῥ", "ῦ", "ῧ", "Ῠ", "Ῡ", "Ὺ", "Ύ", "Ῥ", "ῲ", "ῳ", "ῴ", "ῶ", "ῷ", "Ὸ", "Ό", "Ὼ",
    "Ώ", "ῼ", "U+2070", "U+2071", "U+2074", "U+2075", "U+2076", "U+2077", "U+2078", "U+2079",
    "U+207F", "₀", "₁", "₂", "₃", "₄", "₅", "₆", "₇", "₈", "₉", "ₐ", "ₑ", "ₒ", "ₓ", "ₔ", "ₕ", "ₖ",
    "ₗ", "ₘ", "ₙ", "ₚ", "ₛ", "ₜ", "U+2102", "U+2107", "U+210A", "U+210B", "U+210C", "U+210D",
    "U+210E", "U+210F", "U+2110", "U+2111", "U+2112", "U+2113", "U+2115", "U+2119", "U+211A",
    "U+211B", "U+211C", "U+211D", "U+2124", "U+2126", "U+2128", "U+212A", "U+212B", "U+212C",
    "U+212D", "U+212F", "U+2130", "U+2131", "U+2132", "U+2133", "U+2134", "U+2135", "U+2136",
    "U+2137", "U+2138", "U+2139", "U+213C", "U+213D", "U+213E", "U+213F", "U+2145", "U+2146",
    "U+2147", "U+2148", "U+2149", "U+214E", "U+2150", "U+2151", "U+2152", "U+2153", "U+2154",
    "U+2155", "U+2156", "U+2157", "U+2158", "U+2159", "U+215A", "U+215B", "U+215C", "U+215D",
    "U+215E", "U+215F", "U+2160", "U+2161", "U+2162", "U+2163", "U+2164", "U+2165", "U+2166",
    "U+2167", "U+2168", "U+2169", "U+216A", "U+216B", "U+216C", "U+216D", "U+216E", "U+216F",
    "U+2170", "U+2171", "U+2172", "U+2173", "U+2174", "U+2175", "U+2176", "U+2177", "U+2178",
    "U+2179", "U+217A", "U+217B", "U+217C", "U+217D", "U+217E", "U+217F", "ↀ", "ↁ", "ↂ", "Ↄ", "ↄ",
    "ↅ", "ↆ", "ↇ", "ↈ", "↉", "U+2460", "U+2461", "U+2462", "U+2463", "U+2464", "U+2465", "U+2466",
    "U+2467", "U+2468", "U+2469", "U+246A", "U+246B", "U+246C", "U+246D", "U+246E", "U+246F",
    "U+2470", "U+2471", "U+2472", "U+2473", "U+2474", "U+2475", "U+2476", "U+2477", "U+2478",
    "U+2479", "U+247A", "U+247B", "U+247C", "U+247D", "U+247E", "U+247F", "⒀", "⒁", "⒂", "⒃", "⒄",
    "⒅", "⒆", "⒇", "⒈", "⒉", "⒊", "⒋", "⒌", "⒍", "⒎", "⒏", "⒐", "⒑", "⒒", "⒓", "⒔", "⒕", "⒖", "⒗",
    "⒘", "⒙", "⒚", "⒛", "⓪", "⓫", "⓬", "⓭", "⓮", "⓯", "⓰", "⓱", "⓲", "⓳", "⓴", "⓵", "⓶", "⓷", "⓸",
    "⓹", "⓺", "⓻", "⓼", "⓽", "⓾", "⓿", "U+2776", "U+2777", "U+2778", "U+2779", "U+277A", "U+277B",
    "U+277C", "U+277D", "U+277E", "U+277F", "➀", "➁", "➂", "➃", "➄", "➅", "➆", "➇", "➈", "➉", "➊",
    "➋", "➌", "➍", "➎", "➏", "➐", "➑", "➒", "➓", "U+2C00", "U+2C01", "U+2C02", "U+2C03", "U+2C04",
    "U+2C05", "U+2C06", "U+2C07", "U+2C08", "U+2C09", "U+2C0A", "U+2C0B", "U+2C0C", "U+2C0D",
    "U+2C0E", "U+2C0F", "U+2C10", "U+2C11", "U+2C12", "U+2C13", "U+2C14", "U+2C15", "U+2C16",
    "U+2C17", "U+2C18", "U+2C19", "U+2C1A", "U+2C1B", "U+2C1C", "U+2C1D", "U+2C1E", "U+2C1F",
    "U+2C20", "U+2C21", "U+2C22", "U+2C23", "U+2C24", "U+2C25", "U+2C26", "U+2C27", "U+2C28",
    "U+2C29", "U+2C2A", "U+2C2B", "U+2C2C", "U+2C2D", "U+2C2E", "U+2C2F", "U+2C30", "U+2C31",
    "U+2C32", "U+2C33", "U+2C34", "U+2C35", "U+2C36", "U+2C37", "U+2C38", "U+2C39", "U+2C3A",
    "U+2C3B", "U+2C3C", "U+2C3D", "U+2C3E", "U+2C3F", "U+2C40", "U+2C41", "U+2C42", "U+2C43",
    "U+2C44", "U+2C45", "U+2C46", "U+2C47", "U+2C48", "U+2C49", "U+2C4A", "U+2C4B", "U+2C4C",
    "U+2C4D", "U+2C4E", "U+2C4F", "U+2C50", "U+2C51", "U+2C52", "U+2C53", "U+2C54", "U+2C55",
    "U+2C56", "U+2C57", "U+2C58", "U+2C59", "U+2C5A", "U+2C5B", "U+2C5C", "U+2C5D", "U+2C5E",
    "U+2C5F", "U+2C60", "U+2C61", "U+2C62", "U+2C63", "U+2C64", "U+2C65", "U+2C66", "U+2C67",
    "U+2C68", "U+2C69", "U+2C6A", "U+2C6B", "U+2C6C", "U+2C6D", "U+2C6E", "U+2C6F", "U+2C70",
    "U+2C71", "U+2C72", "U+2C73", "U+2C74", "U+2C75", "U+2C76", "U+2C77", "U+2C78", "U+2C79",
    "U+2C7A", "U+2C7B", "U+2C7C", "U+2C7D", "U+2C7E", "U+2C7F", "Ⲁ", "ⲁ", "Ⲃ", "ⲃ", "Ⲅ", "ⲅ", "Ⲇ",
    "ⲇ", "Ⲉ", "ⲉ", "Ⲋ", "ⲋ", "Ⲍ", "ⲍ", "Ⲏ", "ⲏ", "Ⲑ", "ⲑ", "Ⲓ", "ⲓ", "Ⲕ", "ⲕ", "Ⲗ", "ⲗ", "Ⲙ", "ⲙ",
    "Ⲛ", "ⲛ", "Ⲝ", "ⲝ", "Ⲟ", "ⲟ", "Ⲡ", "ⲡ", "Ⲣ", "ⲣ", "Ⲥ", "ⲥ", "Ⲧ", "ⲧ", "Ⲩ", "ⲩ", "Ⲫ", "ⲫ", "Ⲭ",
    "ⲭ", "Ⲯ", "ⲯ", "Ⲱ", "ⲱ", "Ⲳ", "ⲳ", "Ⲵ", "ⲵ", "Ⲷ", "ⲷ", "Ⲹ", "ⲹ", "Ⲻ", "ⲻ", "Ⲽ", "ⲽ", "Ⲿ", "ⲿ",
    "Ⳁ", "ⳁ", "Ⳃ", "ⳃ", "Ⳅ", "ⳅ", "Ⳇ", "ⳇ", "Ⳉ", "ⳉ", "Ⳋ", "ⳋ", "Ⳍ", "ⳍ", "Ⳏ", "ⳏ", "Ⳑ", "ⳑ", "Ⳓ",
    "ⳓ", "Ⳕ", "ⳕ", "Ⳗ", "ⳗ", "Ⳙ", "ⳙ", "Ⳛ", "ⳛ", "Ⳝ", "ⳝ", "Ⳟ", "ⳟ", "Ⳡ", "ⳡ", "Ⳣ", "ⳣ", "ⳤ", "Ⳬ",
    "ⳬ", "Ⳮ", "ⳮ", "Ⳳ", "ⳳ", "⳽", "U+2D00", "U+2D01", "U+2D02", "U+2D03", "U+2D04", "U+2D05",
    "U+2D06", "U+2D07", "U+2D08", "U+2D09", "U+2D0A", "U+2D0B", "U+2D0C", "U+2D0D", "U+2D0E",
    "U+2D0F", "U+2D10", "U+2D11", "U+2D12", "U+2D13", "U+2D14", "U+2D15", "U+2D16", "U+2D17",
    "U+2D18", "U+2D19", "U+2D1A", "U+2D1B", "U+2D1C", "U+2D1D", "U+2D1E", "U+2D1F", "U+2D20",
    "U+2D21", "U+2D22", "U+2D23", "U+2D24", "U+2D25", "U+2D27", "U+2D2D", "U+2D30", "U+2D31",
    "U+2D32", "U+2D33", "U+2D34", "U+2D35", "U+2D36", "U+2D37", "U+2D38", "U+2D39", "U+2D3A",
    "U+2D3B", "U+2D3C", "U+2D3D", "U+2D3E", "U+2D3F", "U+2D40", "U+2D41", "U+2D42", "U+2D43",
    "U+2D44", "U+2D45", "U+2D46", "U+2D47", "U+2D48", "U+2D49", "U+2D4A", "U+2D4B", "U+2D4C",
    "U+2D4D", "U+2D4E", "U+2D4F", "U+2D50", "U+2D51", "U+2D52", "U+2D53", "U+2D54", "U+2D55",
    "U+2D56", "U+2D57", "U+2D58", "U+2D59", "U+2D5A", "U+2D5B", "U+2D5C", "U+2D5D", "U+2D5E",
    "U+2D5F", "U+2D60", "U+2D61", "U+2D62", "U+2D63", "U+2D64", "U+2D65", "U+2D66", "U+2D67",
    "U+2D6F", "ⶀ", "ⶁ", "ⶂ", "ⶃ", "ⶄ", "ⶅ", "ⶆ", "ⶇ", "ⶈ", "ⶉ", "ⶊ", "ⶋ", "ⶌ", "ⶍ", "ⶎ", "ⶏ", "ⶐ",
    "ⶑ", "ⶒ", "ⶓ", "ⶔ", "ⶕ", "ⶖ", "ⶠ", "ⶡ", "ⶢ", "ⶣ", "ⶤ", "ⶥ", "ⶦ", "ⶨ", "ⶩ", "ⶪ", "ⶫ", "ⶬ", "ⶭ",
    "ⶮ", "ⶰ", "ⶱ", "ⶲ", "ⶳ", "ⶴ", "ⶵ", "ⶶ", "ⶸ", "ⶹ", "ⶺ", "ⶻ", "ⶼ", "ⶽ", "ⶾ", "ⷀ", "ⷁ", "ⷂ", "ⷃ",
    "ⷄ", "ⷅ", "ⷆ", "ⷈ", "ⷉ", "ⷊ", "ⷋ", "ⷌ", "ⷍ", "ⷎ", "ⷐ", "ⷑ", "ⷒ", "ⷓ", "ⷔ", "ⷕ", "ⷖ", "ⷘ", "ⷙ",
    "ⷚ", "ⷛ", "ⷜ", "ⷝ", "ⷞ", "U+2E2F", "U+A64A", "U+A64B", "U+A77D", "Ɥ", "Ɦ", "Ɜ", "Ɡ", "Ɬ", "Ɪ",
    "Ʞ", "Ʇ", "Ʝ", "Ʂ", "Ᶎ", "U+AB70", "U+AB71", "U+AB72", "U+AB73", "U+AB74", "U+AB75", "U+AB76",
    "U+AB77", "U+AB78", "U+AB79", "U+AB7A", "U+AB7B", "U+AB7C", "U+AB7D", "U+AB7E", "U+AB7F", "ꮀ",
    "ꮁ", "ꮂ", "ꮃ", "ꮄ", "ꮅ", "ꮆ", "ꮇ", "ꮈ", "ꮉ", "ꮊ", "ꮋ", "ꮌ", "ꮍ", "ꮎ", "ꮏ", "ꮐ", "ꮑ", "ꮒ", "ꮓ",
    "ꮔ", "ꮕ", "ꮖ", "ꮗ", "ꮘ", "ꮙ", "ꮚ", "ꮛ", "ꮜ", "ꮝ", "ꮞ", "ꮟ", "ꮠ", "ꮡ", "ꮢ", "ꮣ", "ꮤ", "ꮥ", "ꮦ",
    "ꮧ", "ꮨ", "ꮩ", "ꮪ", "ꮫ", "ꮬ", "ꮭ", "ꮮ", "ꮯ", "ꮰ", "ꮱ", "ꮲ", "ꮳ", "ꮴ", "ꮵ", "ꮶ", "ꮷ", "ꮸ", "ꮹ",
    "ꮺ", "ꮻ", "ꮼ", "ꮽ", "ꮾ", "ꮿ"
  }

\* str.lower() of one character, where it is one other character: <<c, c.lower()>>
LOWER_PAIRS ==
  {
    <<"À", "à">>, <<"Á", "á">>, <<"Â", "â">>, <<"Ã", "ã">>, <<"Ä", "ä">>, <<"Å", "å">>,
    <<"Æ", "æ">>, <<"Ç", "ç">>, <<"È", "è">>, <<"É", "é">>, <<"Ê", "ê">>, <<"Ë", "ë">>,
    <<"Ì", "ì">>, <<"Í", "í">>, <<"Î", "î">>, <<"Ï", "ï">>, <<"Ð", "ð">>, <<"Ñ", "ñ">>,
    <<"Ò", "ò">>, <<"Ó", "ó">>, <<"Ô", "ô">>, <<"Õ", "õ">>, <<"Ö", "ö">>, <<"Ø", "ø">>,
    <<"Ù", "ù">>, <<"Ú", "ú">>, <<"Û", "û">>, <<"Ü", "ü">>, <<"Ý", "ý">>, <<"Þ", "þ">>,
    <<"U+0100", "U+0101">>, <<"U+0102", "U+0103">>, <<"U+0104", "U+0105">>, <<"U+0106", "U+0107">>,
    <<"U+0108", "U+0109">>, <<"U+010A", "U+010B">>, <<"U+010C", "U+010D">>, <<"U+010E", "U+010F">>,
    <<"U+0110", "U+0111">>, <<"U+0112", "U+0113">>, <<"U+0114", "U+0115">>, <<"U+0116", "U+0117">>,
    <<"U+0118", "U+0119">>, <<"U+011A", "U+011B">>, <<"U+011C", "U+011D">>, <<"U+011E", "U+011F">>,
    <<"U+0120", "U+0121">>, <<"U+0122", "U+0123">>, <<"U+0124", "U+0125">>, <<"U+0126", "U+0127">>,
    <<"U+0128", "U+0129">>, <<"U+012A", "U+012B">>, <<"U+012C", "U+012D">>, <<"U+012E", "U+012F">>,
    <<"U+0132", "U+0133">>, <<"U+0134", "U+0135">>, <<"U+0136", "U+0137">>, <<"U+0139", "U+013A">>,
    <<"U+013B", "U+013C">>, <<"U+013D", "U+013E">>, <<"U+013F", "U+0140">>, <<"U+0141", "U+0142">>,
    <<"U+0143", "U+0144">>, <<"U+0145", "U+0146">>, <<"U+0147", "U+0148">>, <<"U+014A", "U+014B">>,
    <<"U+014C", "U+014D">>, <<"U+014E", "U+014F">>, <<"U+0150", "U+0151">>, <<"U+0152", "U+0153">>,
    <<"U+0154", "U+0155">>, <<"U+0156", "U+0157">>, <<"U+0158", "U+0159">>, <<"U+015A", "U+015B">>,
    <<"U+015C", "U+015D">>, <<"U+015E", "U+015F">>, <<"U+0160", "U+0161">>, <<"U+0162", "U+0163">>,
    <<"U+0164", "U+0165">>, <<"U+0166", "U+0167">>, <<"U+0168", "U+0169">>, <<"U+016A", "U+016B">>,
    <<"U+016C", "U+016D">>, <<"U+016E", "U+016F">>, <<"U+0170", "U+0171">>, <<"U+0172", "U+0173">>,
    <<"U+0174", "U+0175">>, <<"U+0176", "U+0177">>, <<"U+0178", "ÿ">>, <<"U+0179", "U+017A">>,
    <<"U+017B", "U+017C">>, <<"U+017D", "U+017E">>, <<"Ɓ", "U+0253">>, <<"Ƃ", "ƃ">>, <<"Ƅ", "ƅ">>,
    <<"Ɔ", "U+0254">>, <<"Ƈ", "ƈ">>, <<"Ɖ", "U+0256">>, <<"Ɗ", "U+0257">>, <<"Ƌ", "ƌ">>,
    <<"Ǝ", "ǝ">>, <<"Ə", "U+0259">>, <<"Ɛ", "U+025B">>, <<"Ƒ", "ƒ">>, <<"Ɠ", "U+0260">>,
    <<"Ɣ", "U+0263">>, <<"Ɩ", "U+0269">>, <<"Ɨ", "U+0268">>, <<"Ƙ", "ƙ">>, <<"Ɯ", "U+026F">>,
    <<"Ɲ", "U+0272">>, <<"Ɵ", "U+0275">>, <<"Ơ", "ơ">>, <<"Ƣ", "ƣ">>, <<"Ƥ", "ƥ">>, <<"Ʀ", "ʀ">>,
    <<"Ƨ", "ƨ">>, <<"Ʃ", "ʃ">>, <<"Ƭ", "ƭ">>, <<"Ʈ", "ʈ">>, <<"Ư", "ư">>, <<"Ʊ", "ʊ">>,
    <<"Ʋ", "ʋ">>, <<"Ƴ", "ƴ">>, <<"Ƶ", "ƶ">>, <<"Ʒ", "ʒ">>, <<"Ƹ", "ƹ">>, <<"Ƽ", "ƽ">>,
    <<"Ǆ", "ǆ">>, <<"ǅ", "ǆ">>, <<"Ǉ", "ǉ">>, <<"ǈ", "ǉ">>, <<"Ǌ", "ǌ">>, <<"ǋ", "ǌ">>,
    <<"Ǎ", "ǎ">>, <<"Ǐ", "ǐ">>, <<"Ǒ", "ǒ">>, <<"Ǔ", "ǔ">>, <<"Ǖ", "ǖ">>, <<"Ǘ", "ǘ">>,
    <<"Ǚ", "ǚ">>, <<"Ǜ", "ǜ">>, <<"Ǟ", "ǟ">>, <<"Ǡ", "ǡ">>, <<"Ǣ", "ǣ">>, <<"Ǥ", "ǥ">>,
    <<"Ǧ", "ǧ">>, <<"Ǩ", "ǩ">>, <<"Ǫ", "ǫ">>, <<"Ǭ", "ǭ">>, <<"Ǯ", "ǯ">>, <<"Ǳ", "ǳ">>,
    <<"ǲ", "ǳ">>, <<"Ǵ", "ǵ">>, <<"Ƕ", "ƕ">>, <<"Ƿ", "ƿ">>, <<"Ǹ", "ǹ">>, <<"Ǻ", "ǻ">>,
    <<"Ǽ", "ǽ">>, <<"Ǿ", "ǿ">>, <<"U+0200", "U+0201">>, <<"U+0202", "U+0203">>,
    <<"U+0204", "U+0205">>, <<"U+0206", "U+0207">>, <<"U+0208", "U+0209">>, <<"U+020A", "U+020B">>,
    <<"U+020C", "U+020D">>, <<"U+020E", "U+020F">>, <<"U+0210", "U+0211">>, <<"U+0212", "U+0213">>,
    <<"U+0214", "U+0215">>, <<"U+0216", "U+0217">>, <<"U+0218", "U+0219">>, <<"U+021A", "U+021B">>,
    <<"U+021C", "U+021D">>, <<"U+021E", "U+021F">>, <<"U+0220", "ƞ">>, <<"U+0222", "U+0223">>,
    <<"U+0224", "U+0225">>, <<"U+0226", "U+0227">>, <<"U+0228", "U+0229">>, <<"U+022A", "U+022B">>,
    <<"U+022C", "U+022D">>, <<"U+022E", "U+022F">>, <<"U+0230", "U+0231">>, <<"U+0232", "U+0233">>,
    <<"U+023A", "U+2C65">>, <<"U+023B", "U+023C">>, <<"U+023D", "ƚ">>, <<"U+023E", "U+2C66">>,
    <<"U+0241", "U+0242">>, <<"U+0243", "ƀ">>, <<"U+0244", "ʉ">>, <<"U+0245", "ʌ">>,
    <<"U+0246", "U+0247">>, <<"U+0248", "U+0249">>, <<"U+024A", "U+024B">>, <<"U+024C", "U+024D">>,
    <<"U+024E", "U+024F">>, <<"U+0370", "U+0371">>, <<"U+0372", "U+0373">>, <<"U+0376", "U+0377">>,
    <<"U+037F", "ϳ">>, <<"Ά", "ά">>, <<"Έ", "έ">>, <<"Ή", "ή">>, <<"Ί", "ί">>, <<"Ό", "ό">>,
    <<"Ύ", "ύ">>, <<"Ώ", "ώ">>, <<"Α", "α">>, <<"Β", "β">>, <<"Γ", "γ">>, <<"Δ", "δ">>,
    <<"Ε", "ε">>, <<"Ζ", "ζ">>, <<"Η", "η">>, <<"Θ", "θ">>, <<"Ι", "ι">>, <<"Κ", "κ">>,
    <<"Λ", "λ">>, <<"Μ", "μ">>, <<"Ν", "ν">>, <<"Ξ", "ξ">>, <<"Ο", "ο">>, <<"Π", "π">>,
    <<"Ρ", "ρ">>, <<"Σ", "σ">>, <<"Τ", "τ">>, <<"Υ", "υ">>, <<"Φ", "φ">>, <<"Χ", "χ">>,
    <<"Ψ", "ψ">>, <<"Ω", "ω">>, <<"Ϊ", "ϊ">>, <<"Ϋ", "ϋ">>, <<"Ϗ", "ϗ">>, <<"Ϙ", "ϙ">>,
    <<"Ϛ", "ϛ">>, <<"Ϝ", "ϝ">>, <<"Ϟ", "ϟ">>, <<"Ϡ", "ϡ">>, <<"Ϣ", "ϣ">>, <<"Ϥ", "ϥ">>,
    <<"Ϧ", "ϧ">>, <<"Ϩ", "ϩ">>, <<"Ϫ", "ϫ">>, <<"Ϭ", "ϭ">>, <<"Ϯ", "ϯ">>, <<"ϴ", "θ">>,
    <<"Ϸ", "ϸ">>, <<"Ϲ", "ϲ">>, <<"Ϻ", "ϻ">>, <<"Ͻ", "U+037B">>, <<"Ͼ", "U+037C">>,
    <<"Ͽ", "U+037D">>, <<"U+0400", "U+0450">>, <<"U+0401", "U+0451">>, <<"U+0402", "U+0452">>,
    <<"U+0403", "U+0453">>, <<"U+0404", "U+0454">>, <<"U+0405", "U+0455">>, <<"U+0406", "U+0456">>,
    <<"U+0407", "U+0457">>, <<"U+0408", "U+0458">>, <<"U+0409", "U+0459">>, <<"U+040A", "U+045A">>,
    <<"U+040B", "U+045B">>, <<"U+040C", "U+045C">>, <<"U+040D", "U+045D">>, <<"U+040E", "U+045E">>,
    <<"U+040F", "U+045F">>, <<"U+0410", "U+0430">>, <<"U+0411", "U+0431">>, <<"U+0412", "U+0432">>,
    <<"U+0413", "U+0433">>, <<"U+0414", "U+0434">>, <<"U+0415", "U+0435">>, <<"U+0416", "U+0436">>,
    <<"U+0417", "U+0437">>, <<"U+0418", "U+0438">>, <<"U+0419", "U+0439">>, <<"U+041A", "U+043A">>,
    <<"U+041B", "U+043B">>, <<"U+041C", "U+043C">>, <<"U+041D", "U+043D">>, <<"U+041E", "U+043E">>,
    <<"U+041F", "U+043F">>, <<"U+0420", "U+0440">>, <<"U+0421", "U+0441">>, <<"U+0422", "U+0442">>,
    <<"U+0423", "U+0443">>, <<"U+0424", "U+0444">>, <<"U+0425", "U+0445">>, <<"U+0426", "U+0446">>,
    <<"U+0427", "U+0447">>, <<"U+0428", "U+0448">>, <<"U+0429", "U+0449">>, <<"U+042A", "U+044A">>,
    <<"U+042B", "U+044B">>, <<"U+042C", "U+044C">>, <<"U+042D", "U+044D">>, <<"U+042E", "U+044E">>,
    <<"U+042F", "U+044F">>, <<"U+0460", "U+0461">>, <<"U+0462", "U+0463">>, <<"U+0464", "U+0465">>,
    <<"U+0466", "U+0467">>, <<"U+0468", "U+0469">>, <<"U+046A", "U+046B">>, <<"U+046C", "U+046D">>,
    <<"U+046E", "U+046F">>, <<"U+0470", "U+0471">>, <<"U+0472", "U+0473">>, <<"U+0474", "U+0475">>,
    <<"U+0476", "U+0477">>, <<"U+0478", "U+0479">>, <<"U+047A", "U+047B">>, <<"U+047C", "U+047D">>,
    <<"U+047E", "U+047F">>, <<"Ҁ", "ҁ">>, <<"Ҋ", "ҋ">>, <<"Ҍ", "ҍ">>, <<"Ҏ", "ҏ">>, <<"Ґ", "ґ">>,
    <<"Ғ", "ғ">>, <<"Ҕ", "ҕ">>, <<"Җ", "җ">>, <<"Ҙ", "ҙ">>, <<"Қ", "қ">>, <<"Ҝ", "ҝ">>,
    <<"Ҟ", "ҟ">>, <<"Ҡ", "ҡ">>, <<"Ң", "ң">>, <<"Ҥ", "ҥ">>, <<"Ҧ", "ҧ">>, <<"Ҩ", "ҩ">>,
    <<"Ҫ", "ҫ">>, <<"Ҭ", "ҭ">>, <<"Ү", "ү">>, <<"Ұ", "ұ">>, <<"Ҳ", "ҳ">>, <<"Ҵ", "ҵ">>,
    <<"Ҷ", "ҷ">>, <<"Ҹ", "ҹ">>, <<"Һ", "һ">>, <<"Ҽ", "ҽ">>, <<"Ҿ", "ҿ">>, <<"Ӏ", "ӏ">>,
    <<"Ӂ", "ӂ">>, <<"Ӄ", "ӄ">>, <<"Ӆ", "ӆ">>, <<"Ӈ", "ӈ">>, <<"Ӊ", "ӊ">>, <<"Ӌ", "ӌ">>,
    <<"Ӎ", "ӎ">>, <<"Ӑ", "ӑ">>, <<"Ӓ", "ӓ">>, <<"Ӕ", "ӕ">>, <<"Ӗ", "ӗ">>, <<"Ә", "ә">>,
    <<"Ӛ", "ӛ">>, <<"Ӝ", "ӝ">>, <<"Ӟ", "ӟ">>, <<"Ӡ", "ӡ">>, <<"Ӣ", "ӣ">>, <<"Ӥ", "ӥ">>,
    <<"Ӧ", "ӧ">>, <<"Ө", "ө">>, <<"Ӫ", "ӫ">>, <<"Ӭ", "ӭ">>, <<"Ӯ", "ӯ">>, <<"Ӱ", "ӱ">>,
    <<"Ӳ", "ӳ">>, <<"Ӵ", "ӵ">>, <<"Ӷ", "ӷ">>, <<"Ӹ", "ӹ">>, <<"Ӻ", "ӻ">>, <<"Ӽ", "ӽ">>,
    <<"Ӿ", "ӿ">>, <<"U+0500", "U+0501">>, <<"U+0502", "U+0503">>, <<"U+0504", "U+0505">>,
    <<"U+0506", "U+0507">>, <<"U+0508", "U+0509">>, <<"U+050A", "U+050B">>, <<"U+050C", "U+050D">>,
    <<"U+050E", "U+050F">>, <<"U+0510", "U+0511">>, <<"U+0512", "U+0513">>, <<"U+0514", "U+0515">>,
    <<"U+0516", "U+0517">>, <<"U+0518", "U+0519">>, <<"U+051A", "U+051B">>, <<"U+051C", "U+051D">>,
    <<"U+051E", "U+051F">>, <<"U+0520", "U+0521">>, <<"U+0522", "U+0523">>, <<"U+0524", "U+0525">>,
    <<"U+0526", "U+0527">>, <<"U+0528", "U+0529">>, <<"U+052A", "U+052B">>, <<"U+052C", "U+052D">>,
    <<"U+052E", "U+052F">>, <<"U+0531", "U+0561">>, <<"U+0532", "U+0562">>, <<"U+0533", "U+0563">>,
    <<"U+0534", "U+0564">>, <<"U+0535", "U+0565">>, <<"U+0536", "U+0566">>, <<"U+0537", "U+0567">>,
    <<"U+0538", "U+0568">>, <<"U+0539", "U+0569">>, <<"U+053A", "U+056A">>, <<"U+053B", "U+056B">>,
    <<"U+053C", "U+056C">>, <<"U+053D", "U+056D">>, <<"U+053E", "U+056E">>, <<"U+053F", "U+056F">>,
    <<"U+0540", "U+0570">>, <<"U+0541", "U+0571">>, <<"U+0542", "U+0572">>, <<"U+0543", "U+0573">>,
    <<"U+0544", "U+0574">>, <<"U+0545", "U+0575">>, <<"U+0546", "U+0576">>, <<"U+0547", "U+0577">>,
    <<"U+0548", "U+0578">>, <<"U+0549", "U+0579">>, <<"U+054A", "U+057A">>, <<"U+054B", "U+057B">>,
    <<"U+054C", "U+057C">>, <<"U+054D", "U+057D">>, <<"U+054E", "U+057E">>, <<"U+054F", "U+057F">>,
    <<"U+0550", "ր">>, <<"U+0551", "ց">>, <<"U+0552", "ւ">>, <<"U+0553", "փ">>, <<"U+0554", "ք">>,
    <<"U+0555", "օ">>, <<"U+0556", "ֆ">>, <<"Ⴀ", "U+2D00">>, <<"Ⴁ", "U+2D01">>, <<"Ⴂ", "U+2D02">>,
    <<"Ⴃ", "U+2D03">>, <<"Ⴄ", "U+2D04">>, <<"Ⴅ", "U+2D05">>, <<"Ⴆ", "U+2D06">>, <<"Ⴇ", "U+2D07">>,
    <<"Ⴈ", "U+2D08">>, <<"Ⴉ", "U+2D09">>, <<"Ⴊ", "U+2D0A">>, <<"Ⴋ", "U+2D0B">>, <<"Ⴌ", "U+2D0C">>,
    <<"Ⴍ", "U+2D0D">>, <<"Ⴎ", "U+2D0E">>, <<"Ⴏ", "U+2D0F">>, <<"Ⴐ", "U+2D10">>, <<"Ⴑ", "U+2D11">>,
    <<"Ⴒ", "U+2D12">>, <<"Ⴓ", "U+2D13">>, <<"Ⴔ", "U+2D14">>, <<"Ⴕ", "U+2D15">>, <<"Ⴖ", "U+2D16">>,
    <<"Ⴗ", "U+2D17">>, <<"Ⴘ", "U+2D18">>, <<"Ⴙ", "U+2D19">>, <<"Ⴚ", "U+2D1A">>, <<"Ⴛ", "U+2D1B">>,
    <<"Ⴜ", "U+2D1C">>, <<"Ⴝ", "U+2D1D">>, <<"Ⴞ", "U+2D1E">>, <<"Ⴟ", "U+2D1F">>, <<"Ⴠ", "U+2D20">>,
    <<"Ⴡ", "U+2D21">>, <<"Ⴢ", "U+2D22">>, <<"Ⴣ", "U+2D23">>, <<"Ⴤ", "U+2D24">>, <<"Ⴥ", "U+2D25">>,
    <<"Ⴧ", "U+2D27">>, <<"Ⴭ", "U+2D2D">>, <<"Ꭰ", "U+AB70">>, <<"Ꭱ", "U+AB71">>, <<"Ꭲ", "U+AB72">>,
    <<"Ꭳ", "U+AB73">>, <<"Ꭴ", "U+AB74">>, <<"Ꭵ", "U+AB75">>, <<"Ꭶ", "U+AB76">>, <<"Ꭷ", "U+AB77">>,
    <<"Ꭸ", "U+AB78">>, <<"Ꭹ", "U+AB79">>, <<"Ꭺ", "U+AB7A">>, <<"Ꭻ", "U+AB7B">>, <<"Ꭼ", "U+AB7C">>,
    <<"Ꭽ", "U+AB7D">>, <<"Ꭾ", "U+AB7E">>, <<"Ꭿ", "U+AB7F">>, <<"Ꮀ", "ꮀ">>, <<"Ꮁ", "ꮁ">>,
    <<"Ꮂ", "ꮂ">>, <<"Ꮃ", "ꮃ">>, <<"Ꮄ", "ꮄ">>, <<"Ꮅ", "ꮅ">>, <<"Ꮆ", "ꮆ">>, <<"Ꮇ", "ꮇ">>,
    <<"Ꮈ", "ꮈ">>, <<"Ꮉ", "ꮉ">>, <<"Ꮊ", "ꮊ">>, <<"Ꮋ", "ꮋ">>, <<"Ꮌ", "ꮌ">>, <<"Ꮍ", "ꮍ">>,
    <<"Ꮎ", "ꮎ">>, <<"Ꮏ", "ꮏ">>, <<"Ꮐ", "ꮐ">>, <<"Ꮑ", "ꮑ">>, <<"Ꮒ", "ꮒ">>, <<"Ꮓ", "ꮓ">>,
    <<"Ꮔ", "ꮔ">>, <<"Ꮕ", "ꮕ">>, <<"Ꮖ", "ꮖ">>, <<"Ꮗ", "ꮗ">>, <<"Ꮘ", "ꮘ">>, <<"Ꮙ", "ꮙ">>,
    <<"Ꮚ", "ꮚ">>, <<"Ꮛ", "ꮛ">>, <<"Ꮜ", "ꮜ">>, <<"Ꮝ", "ꮝ">>, <<"Ꮞ", "ꮞ">>, <<"Ꮟ", "ꮟ">>,
    <<"Ꮠ", "ꮠ">>, <<"Ꮡ", "ꮡ">>, <<"Ꮢ", "ꮢ">>, <<"Ꮣ", "ꮣ">>, <<"Ꮤ", "ꮤ">>, <<"Ꮥ", "ꮥ">>,
    <<"Ꮦ", "ꮦ">>, <<"Ꮧ", "ꮧ">>, <<"Ꮨ", "ꮨ">>, <<"Ꮩ", "ꮩ">>, <<"Ꮪ", "ꮪ">>, <<"Ꮫ", "ꮫ">>,
    <<"Ꮬ", "ꮬ">>, <<"Ꮭ", "ꮭ">>, <<"Ꮮ", "ꮮ">>, <<"Ꮯ", "ꮯ">>, <<"Ꮰ", "ꮰ">>, <<"Ꮱ", "ꮱ">>,
    <<"Ꮲ", "ꮲ">>, <<"Ꮳ", "ꮳ">>, <<"Ꮴ", "ꮴ">>, <<"Ꮵ", "ꮵ">>, <<"Ꮶ", "ꮶ">>, <<"Ꮷ", "ꮷ">>,
    <<"Ꮸ", "ꮸ">>, <<"Ꮹ", "ꮹ">>, <<"Ꮺ", "ꮺ">>, <<"Ꮻ", "ꮻ">>, <<"Ꮼ", "ꮼ">>, <<"Ꮽ", "ꮽ">>,
    <<"Ꮾ", "ꮾ">>, <<"Ꮿ", "ꮿ">>, <<"Ᏸ", "ᏸ">>, <<"Ᏹ", "ᏹ">>, <<"Ᏺ", "ᏺ">>, <<"Ᏻ", "ᏻ">>,
    <<"Ᏼ", "ᏼ">>, <<"Ᏽ", "ᏽ">>, <<"Ა", "ა">>, <<"Ბ", "ბ">>, <<"Გ", "გ">>, <<"Დ", "დ">>,
    <<"Ე", "ე">>, <<"Ვ", "ვ">>, <<"Ზ", "ზ">>, <<"Თ", "თ">>, <<"Ი", "ი">>, <<"Კ", "კ">>,
    <<"Ლ", "ლ">>, <<"Მ", "მ">>, <<"Ნ", "ნ">>, <<"Ო", "ო">>, <<"Პ", "პ">>, <<"Ჟ", "ჟ">>,
    <<"Რ", "რ">>, <<"Ს", "ს">>, <<"Ტ", "ტ">>, <<"Უ", "უ">>, <<"Ფ", "ფ">>, <<"Ქ", "ქ">>,
    <<"Ღ", "ღ">>, <<"Ყ", "ყ">>, <<"Შ", "შ">>, <<"Ჩ", "ჩ">>, <<"Ც", "ც">>, <<"Ძ", "ძ">>,
    <<"Წ", "წ">>, <<"Ჭ", "ჭ">>, <<"Ხ", "ხ">>, <<"Ჯ", "ჯ">>, <<"Ჰ", "ჰ">>, <<"Ჱ", "ჱ">>,
    <<"Ჲ", "ჲ">>, <<"Ჳ", "ჳ">>, <<"Ჴ", "ჴ">>, <<"Ჵ", "ჵ">>, <<"Ჶ", "ჶ">>, <<"Ჷ", "ჷ">>,
    <<"Ჸ", "ჸ">>, <<"Ჹ", "ჹ">>, <<"Ჺ", "ჺ">>, <<"Ჽ", "ჽ">>, <<"Ჾ", "ჾ">>, <<"Ჿ", "ჿ">>,
    <<"U+1E00", "U+1E01">>, <<"U+1E02", "U+1E03">>, <<"U+1E04", "U+1E05">>, <<"U+1E06", "U+1E07">>,
    <<"U+1E08", "U+1E09">>, <<"U+1E0A", "U+1E0B">>, <<"U+1E0C", "U+1E0D">>, <<"U+1E0E", "U+1E0F">>,
    <<"U+1E10", "U+1E11">>, <<"U+1E12", "U+1E13">>, <<"U+1E14", "U+1E15">>, <<"U+1E16", "U+1E17">>,
    <<"U+1E18", "U+1E19">>, <<"U+1E1A", "U+1E1B">>, <<"U+1E1C", "U+1E1D">>, <<"U+1E1E", "U+1E1F">>,
    <<"U+1E20", "U+1E21">>, <<"U+1E22", "U+1E23">>, <<"U+1E24", "U+1E25">>, <<"U+1E26", "U+1E27">>,
    <<"U+1E28", "U+1E29">>, <<"U+1E2A", "U+1E2B">>, <<"U+1E2C", "U+1E2D">>, <<"U+1E2E", "U+1E2F">>,
    <<"U+1E30", "U+1E31">>, <<"U+1E32", "U+1E33">>, <<"U+1E34", "U+1E35">>, <<"U+1E36", "U+1E37">>,
    <<"U+1E38", "U+1E39">>, <<"U+1E3A", "U+1E3B">>, <<"U+1E3C", "U+1E3D">>, <<"U+1E3E", "U+1E3F">>,
    <<"U+1E40", "U+1E41">>, <<"U+1E42", "U+1E43">>, <<"U+1E44", "U+1E45">>, <<"U+1E46", "U+1E47">>,
    <<"U+1E48", "U+1E49">>, <<"U+1E4A", "U+1E4B">>, <<"U+1E4C", "U+1E4D">>, <<"U+1E4E", "U+1E4F">>,
    <<"U+1E50", "U+1E51">>, <<"U+1E52", "U+1E53">>, <<"U+1E54", "U+1E55">>, <<"U+1E56", "U+1E57">>,
    <<"U+1E58", "U+1E59">>, <<"U+1E5A", "U+1E5B">>, <<"U+1E5C", "U+1E5D">>, <<"U+1E5E", "U+1E5F">>,
    <<"U+1E60", "U+1E61">>, <<"U+1E62", "U+1E63">>, <<"U+1E64", "U+1E65">>, <<"U+1E66", "U+1E67">>,
    <<"U+1E68", "U+1E69">>, <<"U+1E6A", "U+1E6B">>, <<"U+1E6C", "U+1E6D">>, <<"U+1E6E", "U+1E6F">>,
    <<"U+1E70", "U+1E71">>, <<"U+1E72", "U+1E73">>, <<"U+1E74", "U+1E75">>, <<"U+1E76", "U+1E77">>,
    <<"U+1E78", "U+1E79">>, <<"U+1E7A", "U+1E7B">>, <<"U+1E7C", "U+1E7D">>, <<"U+1E7E", "U+1E7F">>,
    <<"Ẁ", "ẁ">>, <<"Ẃ", "ẃ">>, <<"Ẅ", "ẅ">>, <<"Ẇ", "ẇ">>, <<"Ẉ", "ẉ">>, <<"Ẋ", "ẋ">>,
    <<"Ẍ", "ẍ">>, <<"Ẏ", "ẏ">>, <<"Ẑ", "ẑ">>, <<"Ẓ", "ẓ">>, <<"Ẕ", "ẕ">>, <<"ẞ", "ß">>,
    <<"Ạ", "ạ">>, <<"Ả", "ả">>, <<"Ấ", "ấ">>, <<"Ầ", "ầ">>, <<"Ẩ", "ẩ">>, <<"Ẫ", "ẫ">>,
    <<"Ậ", "ậ">>, <<"Ắ", "ắ">>, <<"Ằ", "ằ">>, <<"Ẳ", "ẳ">>, <<"Ẵ", "ẵ">>, <<"Ặ", "ặ">>,
    <<"Ẹ", "ẹ">>, <<"Ẻ", "ẻ">>, <<"Ẽ", "ẽ">>, <<"Ế", "ế">>, <<"Ề", "ề">>, <<"Ể", "ể">>,
    <<"Ễ", "ễ">>, <<"Ệ", "ệ">>, <<"Ỉ", "ỉ">>, <<"Ị", "ị">>, <<"Ọ", "ọ">>, <<"Ỏ", "ỏ">>,
    <<"Ố", "ố">>, <<"Ồ", "ồ">>, <<"Ổ", "ổ">>, <<"Ỗ", "ỗ">>, <<"Ộ", "ộ">>, <<"Ớ", "ớ">>,
    <<"Ờ", "ờ">>, <<"Ở", "ở">>, <<"Ỡ", "ỡ">>, <<"Ợ", "ợ">>, <<"Ụ", "ụ">>, <<"Ủ", "ủ">>,
    <<"Ứ", "ứ">>, <<"Ừ", "ừ">>, <<"Ử", "ử">>, <<"Ữ", "ữ">>, <<"Ự", "ự">>, <<"Ỳ", "ỳ">>,
    <<"Ỵ", "ỵ">>, <<"Ỷ", "ỷ">>, <<"Ỹ", "ỹ">>, <<"Ỻ", "ỻ">>, <<"Ỽ", "ỽ">>, <<"Ỿ", "ỿ">>,
    <<"U+1F08", "U+1F00">>, <<"U+1F09", "U+1F01">>, <<"U+1F0A", "U+1F02">>, <<"U+1F0B", "U+1F03">>,
    <<"U+1F0C", "U+1F04">>, <<"U+1F0D", "U+1F05">>, <<"U+1F0E", "U+1F06">>, <<"U+1F0F", "U+1F07">>,
    <<"U+1F18", "U+1F10">>, <<"U+1F19", "U+1F11">>, <<"U+1F1A", "U+1F12">>, <<"U+1F1B", "U+1F13">>,
    <<"U+1F1C", "U+1F14">>, <<"U+1F1D", "U+1F15">>, <<"U+1F28", "U+1F20">>, <<"U+1F29", "U+1F21">>,
    <<"U+1F2A", "U+1F22">>, <<"U+1F2B", "U+1F23">>, <<"U+1F2C", "U+1F24">>, <<"U+1F2D", "U+1F25">>,
    <<"U+1F2E", "U+1F26">>, <<"U+1F2F", "U+1F27">>, <<"U+1F38", "U+1F30">>, <<"U+1F39", "U+1F31">>,
    <<"U+1F3A", "U+1F32">>, <<"U+1F3B", "U+1F33">>, <<"U+1F3C", "U+1F34">>, <<"U+1F3D", "U+1F35">>,
    <<"U+1F3E", "U+1F36">>, <<"U+1F3F", "U+1F37">>, <<"U+1F48", "U+1F40">>, <<"U+1F49", "U+1F41">>,
    <<"U+1F4A", "U+1F42">>, <<"U+1F4B", "U+1F43">>, <<"U+1F4C", "U+1F44">>, <<"U+1F4D", "U+1F45">>,
    <<"U+1F59", "U+1F51">>, <<"U+1F5B", "U+1F53">>, <<"U+1F5D", "U+1F55">>, <<"U+1F5F", "U+1F57">>,
    <<"U+1F68", "U+1F60">>, <<"U+1F69", "U+1F61">>, <<"U+1F6A", "U+1F62">>, <<"U+1F6B", "U+1F63">>,
    <<"U+1F6C", "U+1F64">>, <<"U+1F6D", "U+1F65">>, <<"U+1F6E", "U+1F66">>, <<"U+1F6F", "U+1F67">>,
    <<"ᾈ", "ᾀ">>, <<"ᾉ", "ᾁ">>, <<"ᾊ", "ᾂ">>, <<"ᾋ", "ᾃ">>, <<"ᾌ", "ᾄ">>, <<"ᾍ", "ᾅ">>,
    <<"ᾎ", "ᾆ">>, <<"ᾏ", "ᾇ">>, <<"ᾘ", "ᾐ">>, <<"ᾙ", "ᾑ">>, <<"ᾚ", "ᾒ">>, <<"ᾛ", "ᾓ">>,
    <<"ᾜ", "ᾔ">>, <<"ᾝ", "ᾕ">>, <<"ᾞ", "ᾖ">>, <<"ᾟ", "ᾗ">>, <<"ᾨ", "ᾠ">>, <<"ᾩ", "ᾡ">>,
    <<"ᾪ", "ᾢ">>, <<"ᾫ", "ᾣ">>, <<"ᾬ", "ᾤ">>, <<"ᾭ", "ᾥ">>, <<"ᾮ", "ᾦ">>, <<"ᾯ", "ᾧ">>,
    <<"Ᾰ", "ᾰ">>, <<"Ᾱ", "ᾱ">>, <<"Ὰ", "U+1F70">>, <<"Ά", "U+1F71">>, <<"ᾼ", "ᾳ">>,
    <<"Ὲ", "U+1F72">>, <<"Έ", "U+1F73">>, <<"Ὴ", "U+1F74">>, <<"Ή", "U+1F75">>, <<"ῌ", "ῃ">>,
    <<"Ῐ", "ῐ">>, <<"Ῑ", "ῑ">>, <<"Ὶ", "U+1F76">>, <<"Ί", "U+1F77">>, <<"Ῠ", "ῠ">>, <<"Ῡ", "ῡ">>,
    <<"Ὺ", "U+1F7A">>, <<"Ύ", "U+1F7B">>, <<"Ῥ", "ῥ">>, <<"Ὸ", "U+1F78">>, <<"Ό", "U+1F79">>,
    <<"Ὼ", "U+1F7C">>, <<"Ώ", "U+1F7D">>, <<"ῼ", "ῳ">>, <<"U+2126", "ω">>, <<"U+212A", "k">>,
    <<"U+212B", "å">>, <<"U+2132", "U+214E">>, <<"U+2160", "U+2170">>, <<"U+2161", "U+2171">>,
    <<"U+2162", "U+2172">>, <<"U+2163", "U+2173">>, <<"U+2164", "U+2174">>, <<"U+2165", "U+2175">>,
    <<"U+2166", "U+2176">>, <<"U+2167", "U+2177">>, <<"U+2168", "U+2178">>, <<"U+2169", "U+2179">>,
    <<"U+216A", "U+217A">>, <<"U+216B", "U+217B">>, <<"U+216C", "U+217C">>, <<"U+216D", "U+217D">>,
    <<"U+216E", "U+217E">>, <<"U+216F", "U+217F">>, <<"Ↄ", "ↄ">>, <<"Ⓐ", "ⓐ">>, <<"Ⓑ", "ⓑ">>,
    <<"Ⓒ", "ⓒ">>, <<"Ⓓ", "ⓓ">>, <<"Ⓔ", "ⓔ">>, <<"Ⓕ", "ⓕ">>, <<"Ⓖ", "ⓖ">>, <<"Ⓗ", "ⓗ">>,
    <<"Ⓘ", "ⓘ">>, <<"Ⓙ", "ⓙ">>, <<"Ⓚ", "ⓚ">>, <<"Ⓛ", "ⓛ">>, <<"Ⓜ", "ⓜ">>, <<"Ⓝ", "ⓝ">>,
    <<"Ⓞ", "ⓞ">>, <<"Ⓟ", "ⓟ">>, <<"Ⓠ", "ⓠ">>, <<"Ⓡ", "ⓡ">>, <<"Ⓢ", "ⓢ">>, <<"Ⓣ", "ⓣ">>,
    <<"Ⓤ", "ⓤ">>, <<"Ⓥ", "ⓥ">>, <<"Ⓦ", "ⓦ">>, <<"Ⓧ", "ⓧ">>, <<"Ⓨ", "ⓨ">>, <<"Ⓩ", "ⓩ">>,
    <<"U+2C00", "U+2C30">>, <<"U+2C01", "U+2C31">>, <<"U+2C02", "U+2C32">>, <<"U+2C03", "U+2C33">>,
    <<"U+2C04", "U+2C34">>, <<"U+2C05", "U+2C35">>, <<"U+2C06", "U+2C36">>, <<"U+2C07", "U+2C37">>,
    <<"U+2C08", "U+2C38">>, <<"U+2C09", "U+2C39">>, <<"U+2C0A", "U+2C3A">>, <<"U+2C0B", "U+2C3B">>,
    <<"U+2C0C", "U+2C3C">>, <<"U+2C0D", "U+2C3D">>, <<"U+2C0E", "U+2C3E">>, <<"U+2C0F", "U+2C3F">>,
    <<"U+2C10", "U+2C40">>, <<"U+2C11", "U+2C41">>, <<"U+2C12", "U+2C42">>, <<"U+2C13", "U+2C43">>,
    <<"U+2C14", "U+2C44">>, <<"U+2C15", "U+2C45">>, <<"U+2C16", "U+2C46">>, <<"U+2C17", "U+2C47">>,
    <<"U+2C18", "U+2C48">>, <<"U+2C19", "U+2C49">>, <<"U+2C1A", "U+2C4A">>, <<"U+2C1B", "U+2C4B">>,
    <<"U+2C1C", "U+2C4C">>, <<"U+2C1D", "U+2C4D">>, <<"U+2C1E", "U+2C4E">>, <<"U+2C1F", "U+2C4F">>,
    <<"U+2C20", "U+2C50">>, <<"U+2C21", "U+2C51">>, <<"U+2C22", "U+2C52">>, <<"U+2C23", "U+2C53">>,
    <<"U+2C24", "U+2C54">>, <<"U+2C25", "U+2C55">>, <<"U+2C26", "U+2C56">>, <<"U+2C27", "U+2C57">>,
    <<"U+2C28", "U+2C58">>, <<"U+2C29", "U+2C59">>, <<"U+2C2A", "U+2C5A">>, <<"U+2C2B", "U+2C5B">>,
    <<"U+2C2C", "U+2C5C">>, <<"U+2C2D", "U+2C5D">>, <<"U+2C2E", "U+2C5E">>, <<"U+2C2F", "U+2C5F">>,
    <<"U+2C60", "U+2C61">>, <<"U+2C62", "U+026B">>, <<"U+2C63", "U+1D7D">>, <<"U+2C64", "U+027D">>,
    <<"U+2C67", "U+2C68">>, <<"U+2C69", "U+2C6A">>, <<"U+2C6B", "U+2C6C">>, <<"U+2C6D", "U+0251">>,
    <<"U+2C6E", "U+0271">>, <<"U+2C6F", "U+0250">>, <<"U+2C70", "U+0252">>, <<"U+2C72", "U+2C73">>,
    <<"U+2C75", "U+2C76">>, <<"U+2C7E", "U+023F">>, <<"U+2C7F", "U+0240">>, <<"Ⲁ", "ⲁ">>,
    <<"Ⲃ", "ⲃ">>, <<"Ⲅ", "ⲅ">>, <<"Ⲇ", "ⲇ">>, <<"Ⲉ", "ⲉ">>, <<"Ⲋ", "ⲋ">>, <<"Ⲍ", "ⲍ">>,
    <<"Ⲏ", "ⲏ">>, <<"Ⲑ", "ⲑ">>, <<"Ⲓ", "ⲓ">>, <<"Ⲕ", "ⲕ">>, <<"Ⲗ", "ⲗ">>, <<"Ⲙ", "ⲙ">>,
    <<"Ⲛ", "ⲛ">>, <<"Ⲝ", "ⲝ">>, <<"Ⲟ", "ⲟ">>, <<"Ⲡ", "ⲡ">>, <<"Ⲣ", "ⲣ">>, <<"Ⲥ", "ⲥ">>,
    <<"Ⲧ", "ⲧ">>, <<"Ⲩ", "ⲩ">>, <<"Ⲫ", "ⲫ">>, <<"Ⲭ", "ⲭ">>, <<"Ⲯ", "ⲯ">>, <<"Ⲱ", "ⲱ">>,
    <<"Ⲳ", "ⲳ">>, <<"Ⲵ", "ⲵ">>, <<"Ⲷ", "ⲷ">>, <<"Ⲹ", "ⲹ">>, <<"Ⲻ", "ⲻ">>, <<"Ⲽ", "ⲽ">>,
    <<"Ⲿ", "ⲿ">>, <<"Ⳁ", "ⳁ">>, <<"Ⳃ", "ⳃ">>, <<"Ⳅ", "ⳅ">>, <<"Ⳇ", "ⳇ">>, <<"Ⳉ", "ⳉ">>,
    <<"Ⳋ", "ⳋ">>, <<"Ⳍ", "ⳍ">>, <<"Ⳏ", "ⳏ">>, <<"Ⳑ", "ⳑ">>, <<"Ⳓ", "ⳓ">>, <<"Ⳕ", "ⳕ">>,
    <<"Ⳗ", "ⳗ">>, <<"Ⳙ", "ⳙ">>, <<"Ⳛ", "ⳛ">>, <<"Ⳝ", "ⳝ">>, <<"Ⳟ", "ⳟ">>, <<"Ⳡ", "ⳡ">>,
    <<"Ⳣ", "ⳣ">>, <<"Ⳬ", "ⳬ">>, <<"Ⳮ", "ⳮ">>, <<"Ⳳ", "ⳳ">>, <<"U+A64A", "U+A64B">>,
    <<"U+A77D", "U+1D79">>, <<"Ɥ", "U+0265">>, <<"Ɦ", "U+0266">>, <<"Ɜ", "U+025C">>,
    <<"Ɡ", "U+0261">>, <<"Ɬ", "U+026C">>, <<"Ɪ", "U+026A">>, <<"Ʞ", "ʞ">>, <<"Ʇ", "ʇ">>,
    <<"Ʝ", "ʝ">>, <<"Ʂ", "ʂ">>, <<"Ᶎ", "ᶎ">>
  }

\* str.lower() of one character, where it is more than one character
LOWER_SPECIAL ==
  {
    <<"U+0130", <<"i", "U+0307">>>>
  }

\* str.title() of one character, where it is one other character: <<c, c.title()>>
TITLE_PAIRS ==
  {
    <<"µ", "Μ">>, <<"à", "À">>, <<"á", "Á">>, <<"â", "Â">>, <<"ã", "Ã">>, <<"ä", "Ä">>,
    <<"å", "Å">>, <<"æ", "Æ">>, <<"ç", "Ç">>, <<"è", "È">>, <<"é", "É">>, <<"ê", "Ê">>,
    <<"ë", "Ë">>, <<"ì", "Ì">>, <<"í", "Í">>, <<"î", "Î">>, <<"ï", "Ï">>, <<"ð", "Ð">>,
    <<"ñ", "Ñ">>, <<"ò", "Ò">>, <<"ó", "Ó">>, <<"ô", "Ô">>, <<"õ", "Õ">>, <<"ö", "Ö">>,
    <<"ø", "Ø">>, <<"ù", "Ù">>, <<"ú", "Ú">>, <<"û", "Û">>, <<"ü", "Ü">>, <<"ý", "Ý">>,
    <<"þ", "Þ">>, <<"ÿ", "U+0178">>, <<"U+0101", "U+0100">>, <<"U+0103", "U+0102">>,
    <<"U+0105", "U+0104">>, <<"U+0107", "U+0106">>, <<"U+0109", "U+0108">>, <<"U+010B", "U+010A">>,
    <<"U+010D", "U+010C">>, <<"U+010F", "U+010E">>, <<"U+0111", "U+0110">>, <<"U+0113", "U+0112">>,
    <<"U+0115", "U+0114">>, <<"U+0117", "U+0116">>, <<"U+0119", "U+0118">>, <<"U+011B", "U+011A">>,
    <<"U+011D", "U+011C">>, <<"U+011F", "U+011E">>, <<"U+0121", "U+0120">>, <<"U+0123", "U+0122">>,
    <<"U+0125", "U+0124">>, <<"U+0127", "U+0126">>, <<"U+0129", "U+0128">>, <<"U+012B", "U+012A">>,
    <<"U+012D", "U+012C">>, <<"U+012F", "U+012E">>, <<"U+0131", "I">>, <<"U+0133", "U+0132">>,
    <<"U+0135", "U+0134">>, <<"U+0137", "U+0136">>, <<"U+013A", "U+0139">>, <<"U+013C", "U+013B">>,
    <<"U+013E", "U+013D">>, <<"U+0140", "U+013F">>, <<"U+0142", "U+0141">>, <<"U+0144", "U+0143">>,
    <<"U+0146", "U+0145">>, <<"U+0148", "U+0147">>, <<"U+014B", "U+014A">>, <<"U+014D", "U+014C">>,
    <<"U+014F", "U+014E">>, <<"U+0151", "U+0150">>, <<"U+0153", "U+0152">>, <<"U+0155", "U+0154">>,
    <<"U+0157", "U+0156">>, <<"U+0159", "U+0158">>, <<"U+015B", "U+015A">>, <<"U+015D", "U+015C">>,
    <<"U+015F", "U+015E">>, <<"U+0161", "U+0160">>, <<"U+0163", "U+0162">>, <<"U+0165", "U+0164">>,
    <<"U+0167", "U+0166">>, <<"U+0169", "U+0168">>, <<"U+016B", "U+016A">>, <<"U+016D", "U+016C">>,
    <<"U+016F", "U+016E">>, <<"U+0171", "U+0170">>, <<"U+0173", "U+0172">>, <<"U+0175", "U+0174">>,
    <<"U+0177", "U+0176">>, <<"U+017A", "U+0179">>, <<"U+017C", "U+017B">>, <<"U+017E", "U+017D">>,
    <<"U+017F", "S">>, <<"ƀ", "U+0243">>, <<"ƃ", "Ƃ">>, <<"ƅ", "Ƅ">>, <<"ƈ", "Ƈ">>, <<"ƌ", "Ƌ">>,
    <<"ƒ", "Ƒ">>, <<"ƕ", "Ƕ">>, <<"ƙ", "Ƙ">>, <<"ƚ", "U+023D">>, <<"ƞ", "U+0220">>, <<"ơ", "Ơ">>,
    <<"ƣ", "Ƣ">>, <<"ƥ", "Ƥ">>, <<"ƨ", "Ƨ">>, <<"ƭ", "Ƭ">>, <<"ư", "Ư">>, <<"ƴ", "Ƴ">>,
    <<"ƶ", "Ƶ">>, <<"ƹ", "Ƹ">>, <<"ƽ", "Ƽ">>, <<"ƿ", "Ƿ">>, <<"Ǆ", "ǅ">>, <<"ǆ", "ǅ">>,
    <<"Ǉ", "ǈ">>, <<"ǉ", "ǈ">>, <<"Ǌ", "ǋ">>, <<"ǌ", "ǋ">>, <<"ǎ", "Ǎ">>, <<"ǐ", "Ǐ">>,
    <<"ǒ", "Ǒ">>, <<"ǔ", "Ǔ">>, <<"ǖ", "Ǖ">>, <<"ǘ", "Ǘ">>, <<"ǚ", "Ǚ">>, <<"ǜ", "Ǜ">>,
    <<"ǝ", "Ǝ">>, <<"ǟ", "Ǟ">>, <<"ǡ", "Ǡ">>, <<"ǣ", "Ǣ">>, <<"ǥ", "Ǥ">>, <<"ǧ", "Ǧ">>,
    <<"ǩ", "Ǩ">>, <<"ǫ", "Ǫ">>, <<"ǭ", "Ǭ">>, <<"ǯ", "Ǯ">>, <<"Ǳ", "ǲ">>, <<"ǳ", "ǲ">>,
    <<"ǵ", "Ǵ">>, <<"ǹ", "Ǹ">>, <<"ǻ", "Ǻ">>, <<"ǽ", "Ǽ">>, <<"ǿ", "Ǿ">>, <<"U+0201", "U+0200">>,
    <<"U+0203", "U+0202">>, <<"U+0205", "U+0204">>, <<"U+0207", "U+0206">>, <<"U+0209", "U+0208">>,
    <<"U+020B", "U+020A">>, <<"U+020D", "U+020C">>, <<"U+020F", "U+020E">>, <<"U+0211", "U+0210">>,
    <<"U+0213", "U+0212">>, <<"U+0215", "U+0214">>, <<"U+0217", "U+0216">>, <<"U+0219", "U+0218">>,
    <<"U+021B", "U+021A">>, <<"U+021D", "U+021C">>, <<"U+021F", "U+021E">>, <<"U+0223", "U+0222">>,
    <<"U+0225", "U+0224">>, <<"U+0227", "U+0226">>, <<"U+0229", "U+0228">>, <<"U+022B", "U+022A">>,
    <<"U+022D", "U+022C">>, <<"U+022F", "U+022E">>, <<"U+0231", "U+0230">>, <<"U+0233", "U+0232">>,
    <<"U+023C", "U+023B">>, <<"U+023F", "U+2C7E">>, <<"U+0240", "U+2C7F">>, <<"U+0242", "U+0241">>,
    <<"U+0247", "U+0246">>, <<"U+0249", "U+0248">>, <<"U+024B", "U+024A">>, <<"U+024D", "U+024C">>,
    <<"U+024F", "U+024E">>, <<"U+0250", "U+2C6F">>, <<"U+0251", "U+2C6D">>, <<"U+0252", "U+2C70">>,
    <<"U+0253", "Ɓ">>, <<"U+0254", "Ɔ">>, <<"U+0256", "Ɖ">>, <<"U+0257", "Ɗ">>, <<"U+0259", "Ə">>,
    <<"U+025B", "Ɛ">>, <<"U+025C", "Ɜ">>, <<"U+0260", "Ɠ">>, <<"U+0261", "Ɡ">>, <<"U+0263", "Ɣ">>,
    <<"U+0265", "Ɥ">>, <<"U+0266", "Ɦ">>, <<"U+0268", "Ɨ">>, <<"U+0269", "Ɩ">>, <<"U+026A", "Ɪ">>,
    <<"U+026B", "U+2C62">>, <<"U+026C", "Ɬ">>, <<"U+026F", "Ɯ">>, <<"U+0271", "U+2C6E">>,
    <<"U+0272", "Ɲ">>, <<"U+0275", "Ɵ">>, <<"U+027D", "U+2C64">>, <<"ʀ", "Ʀ">>, <<"ʂ", "Ʂ">>,
    <<"ʃ", "Ʃ">>, <<"ʇ", "Ʇ">>, <<"ʈ", "Ʈ">>, <<"ʉ", "U+0244">>, <<"ʊ", "Ʊ">>, <<"ʋ", "Ʋ">>,
    <<"ʌ", "U+0245">>, <<"ʒ", "Ʒ">>, <<"ʝ", "Ʝ">>, <<"ʞ", "Ʞ">>, <<"U+0345", "Ι">>,
    <<"U+0371", "U+0370">>, <<"U+0373", "U+0372">>, <<"U+0377", "U+0376">>, <<"U+037B", "Ͻ">>,
    <<"U+037C", "Ͼ">>, <<"U+037D", "Ͽ">>, <<"ά", "Ά">>, <<"έ", "Έ">>, <<"ή", "Ή">>, <<"ί", "Ί">>,
    <<"α", "Α">>, <<"β", "Β">>, <<"γ", "Γ">>, <<"δ", "Δ">>, <<"ε", "Ε">>, <<"ζ", "Ζ">>,
    <<"η", "Η">>, <<"θ", "Θ">>, <<"ι", "Ι">>, <<"κ", "Κ">>, <<"λ", "Λ">>, <<"μ", "Μ">>,
    <<"ν", "Ν">>, <<"ξ", "Ξ">>, <<"ο", "Ο">>, <<"π", "Π">>, <<"ρ", "Ρ">>, <<"ς", "Σ">>,
    <<"σ", "Σ">>, <<"τ", "Τ">>, <<"υ", "Υ">>, <<"φ", "Φ">>, <<"χ", "Χ">>, <<"ψ", "Ψ">>,
    <<"ω", "Ω">>, <<"ϊ", "Ϊ">>, <<"ϋ", "Ϋ">>, <<"ό", "Ό">>, <<"ύ", "Ύ">>, <<"ώ", "Ώ">>,
    <<"ϐ", "Β">>, <<"ϑ", "Θ">>, <<"ϕ", "Φ">>, <<"ϖ", "Π">>, <<"ϗ", "Ϗ">>, <<"ϙ", "Ϙ">>,
    <<"ϛ", "Ϛ">>, <<"ϝ", "Ϝ">>, <<"ϟ", "Ϟ">>, <<"ϡ", "Ϡ">>, <<"ϣ", "Ϣ">>, <<"ϥ", "Ϥ">>,
    <<"ϧ", "Ϧ">>, <<"ϩ", "Ϩ">>, <<"ϫ", "Ϫ">>, <<"ϭ", "Ϭ">>, <<"ϯ", "Ϯ">>, <<"ϰ", "Κ">>,
    <<"ϱ", "Ρ">>, <<"ϲ", "Ϲ">>, <<"ϳ", "U+037F">>, <<"ϵ", "Ε">>, <<"ϸ", "Ϸ">>, <<"ϻ", "Ϻ">>,
    <<"U+0430", "U+0410">>, <<"U+0431", "U+0411">>, <<"U+0432", "U+0412">>, <<"U+0433", "U+0413">>,
    <<"U+0434", "U+0414">>, <<"U+0435", "U+0415">>, <<"U+0436", "U+0416">>, <<"U+0437", "U+0417">>,
    <<"U+0438", "U+0418">>, <<"U+0439", "U+0419">>, <<"U+043A", "U+041A">>, <<"U+043B", "U+041B">>,
    <<"U+043C", "U+041C">>, <<"U+043D", "U+041D">>, <<"U+043E", "U+041E">>, <<"U+043F", "U+041F">>,
    <<"U+0440", "U+0420">>, <<"U+0441", "U+0421">>, <<"U+0442", "U+0422">>, <<"U+0443", "U+0423">>,
    <<"U+0444", "U+0424">>, <<"U+0445", "U+0425">>, <<"U+0446", "U+0426">>, <<"U+0447", "U+0427">>,
    <<"U+0448", "U+0428">>, <<"U+0449", "U+0429">>, <<"U+044A", "U+042A">>, <<"U+044B", "U+042B">>,
    <<"U+044C", "U+042C">>, <<"U+044D", "U+042D">>, <<"U+044E", "U+042E">>, <<"U+044F", "U+042F">>,
    <<"U+0450", "U+0400">>, <<"U+0451", "U+0401">>, <<"U+0452", "U+0402">>, <<"U+0453", "U+0403">>,
    <<"U+0454", "U+0404">>, <<"U+0455", "U+0405">>, <<"U+0456", "U+0406">>, <<"U+0457", "U+0407">>,
    <<"U+0458", "U+0408">>, <<"U+0459", "U+0409">>, <<"U+045A", "U+040A">>, <<"U+045B", "U+040B">>,
    <<"U+045C", "U+040C">>, <<"U+045D", "U+040D">>, <<"U+045E", "U+040E">>, <<"U+045F", "U+040F">>,
    <<"U+0461", "U+0460">>, <<"U+0463", "U+0462">>, <<"U+0465", "U+0464">>, <<"U+0467", "U+0466">>,
    <<"U+0469", "U+0468">>, <<"U+046B", "U+046A">>, <<"U+046D", "U+046C">>, <<"U+046F", "U+046E">>,
    <<"U+0471", "U+0470">>, <<"U+0473", "U+0472">>, <<"U+0475", "U+0474">>, <<"U+0477", "U+0476">>,
    <<"U+0479", "U+0478">>, <<"U+047B", "U+047A">>, <<"U+047D", "U+047C">>, <<"U+047F", "U+047E">>,
    <<"ҁ", "Ҁ">>, <<"ҋ", "Ҋ">>, <<"ҍ", "Ҍ">>, <<"ҏ", "Ҏ">>, <<"ґ", "Ґ">>, <<"ғ", "Ғ">>,
    <<"ҕ", "Ҕ">>, <<"җ", "Җ">>, <<"ҙ", "Ҙ">>, <<"қ", "Қ">>, <<"ҝ", "Ҝ">>, <<"ҟ", "Ҟ">>,
    <<"ҡ", "Ҡ">>, <<"ң", "Ң">>, <<"ҥ", "Ҥ">>, <<"ҧ", "Ҧ">>, <<"ҩ", "Ҩ">>, <<"ҫ", "Ҫ">>,
    <<"ҭ", "Ҭ">>, <<"ү", "Ү">>, <<"ұ", "Ұ">>, <<"ҳ", "Ҳ">>, <<"ҵ", "Ҵ">>, <<"ҷ", "Ҷ">>,
    <<"ҹ", "Ҹ">>, <<"һ", "Һ">>, <<"ҽ", "Ҽ">>, <<"ҿ", "Ҿ">>, <<"ӂ", "Ӂ">>, <<"ӄ", "Ӄ">>,
    <<"ӆ", "Ӆ">>, <<"ӈ", "Ӈ">>, <<"ӊ", "Ӊ">>, <<"ӌ", "Ӌ">>, <<"ӎ", "Ӎ">>, <<"ӏ", "Ӏ">>,
    <<"ӑ", "Ӑ">>, <<"ӓ", "Ӓ">>, <<"ӕ", "Ӕ">>, <<"ӗ", "Ӗ">>, <<"ә", "Ә">>, <<"ӛ", "Ӛ">>,
    <<"ӝ", "Ӝ">>, <<"ӟ", "Ӟ">>, <<"ӡ", "Ӡ">>, <<"ӣ", "Ӣ">>, <<"ӥ", "Ӥ">>, <<"ӧ", "Ӧ">>,
    <<"ө", "Ө">>, <<"ӫ", "Ӫ">>, <<"ӭ", "Ӭ">>, <<"ӯ", "Ӯ">>, <<"ӱ", "Ӱ">>, <<"ӳ", "Ӳ">>,
    <<"ӵ", "Ӵ">>, <<"ӷ", "Ӷ">>, <<"ӹ", "Ӹ">>, <<"ӻ", "Ӻ">>, <<"ӽ", "Ӽ">>, <<"ӿ", "Ӿ">>,
    <<"U+0501", "U+0500">>, <<"U+0503", "U+0502">>, <<"U+0505", "U+0504">>, <<"U+0507", "U+0506">>,
    <<"U+0509", "U+0508">>, <<"U+050B", "U+050A">>, <<"U+050D", "U+050C">>, <<"U+050F", "U+050E">>,
    <<"U+0511", "U+0510">>, <<"U+0513", "U+0512">>, <<"U+0515", "U+0514">>, <<"U+0517", "U+0516">>,
    <<"U+0519", "U+0518">>, <<"U+051B", "U+051A">>, <<"U+051D", "U+051C">>, <<"U+051F", "U+051E">>,
    <<"U+0521", "U+0520">>, <<"U+0523", "U+0522">>, <<"U+0525", "U+0524">>, <<"U+0527", "U+0526">>,
    <<"U+0529", "U+0528">>, <<"U+052B", "U+052A">>, <<"U+052D", "U+052C">>, <<"U+052F", "U+052E">>,
    <<"U+0561", "U+0531">>, <<"U+0562", "U+0532">>, <<"U+0563", "U+0533">>, <<"U+0564", "U+0534">>,
    <<"U+0565", "U+0535">>, <<"U+0566", "U+0536">>, <<"U+0567", "U+0537">>, <<"U+0568", "U+0538">>,
    <<"U+0569", "U+0539">>, <<"U+056A", "U+053A">>, <<"U+056B", "U+053B">>, <<"U+056C", "U+053C">>,
    <<"U+056D", "U+053D">>, <<"U+056E", "U+053E">>, <<"U+056F", "U+053F">>, <<"U+0570", "U+0540">>,
    <<"U+0571", "U+0541">>, <<"U+0572", "U+0542">>, <<"U+0573", "U+0543">>, <<"U+0574", "U+0544">>,
    <<"U+0575", "U+0545">>, <<"U+0576", "U+0546">>, <<"U+0577", "U+0547">>, <<"U+0578", "U+0548">>,
    <<"U+0579", "U+0549">>, <<"U+057A", "U+054A">>, <<"U+057B", "U+054B">>, <<"U+057C", "U+054C">>,
    <<"U+057D", "U+054D">>, <<"U+057E", "U+054E">>, <<"U+057F", "U+054F">>, <<"ր", "U+0550">>,
    <<"ց", "U+0551">>, <<"ւ", "U+0552">>, <<"փ", "U+0553">>, <<"ք", "U+0554">>, <<"օ", "U+0555">>,
    <<"ֆ", "U+0556">>, <<"ᏸ", "Ᏸ">>, <<"ᏹ", "Ᏹ">>, <<"ᏺ", "Ᏺ">>, <<"ᏻ", "Ᏻ">>, <<"ᏼ", "Ᏼ">>,
    <<"ᏽ", "Ᏽ">>, <<"ᲀ", "U+0412">>, <<"ᲁ", "U+0414">>, <<"ᲂ", "U+041E">>, <<"ᲃ", "U+0421">>,
    <<"ᲄ", "U+0422">>, <<"ᲅ", "U+0422">>, <<"ᲆ", "U+042A">>, <<"ᲇ", "U+0462">>, <<"ᲈ", "U+A64A">>,
    <<"U+1D79", "U+A77D">>, <<"U+1D7D", "U+2C63">>, <<"ᶎ", "Ᶎ">>, <<"U+1E01", "U+1E00">>,
    <<"U+1E03", "U+1E02">>, <<"U+1E05", "U+1E04">>, <<"U+1E07", "U+1E06">>, <<"U+1E09", "U+1E08">>,
    <<"U+1E0B", "U+1E0A">>, <<"U+1E0D", "U+1E0C">>, <<"U+1E0F", "U+1E0E">>, <<"U+1E11", "U+1E10">>,
    <<"U+1E13", "U+1E12">>, <<"U+1E15", "U+1E14">>, <<"U+1E17", "U+1E16">>, <<"U+1E19", "U+1E18">>,
    <<"U+1E1B", "U+1E1A">>, <<"U+1E1D", "U+1E1C">>, <<"U+1E1F", "U+1E1E">>, <<"U+1E21", "U+1E20">>,
    <<"U+1E23", "U+1E22">>, <<"U+1E25", "U+1E24">>, <<"U+1E27", "U+1E26">>, <<"U+1E29", "U+1E28">>,
    <<"U+1E2B", "U+1E2A">>, <<"U+1E2D", "U+1E2C">>, <<"U+1E2F", "U+1E2E">>, <<"U+1E31", "U+1E30">>,
    <<"U+1E33", "U+1E32">>, <<"U+1E35", "U+1E34">>, <<"U+1E37", "U+1E36">>, <<"U+1E39", "U+1E38">>,
    <<"U+1E3B", "U+1E3A">>, <<"U+1E3D", "U+1E3C">>, <<"U+1E3F", "U+1E3E">>, <<"U+1E41", "U+1E40">>,
    <<"U+1E43", "U+1E42">>, <<"U+1E45", "U+1E44">>, <<"U+1E47", "U+1E46">>, <<"U+1E49", "U+1E48">>,
    <<"U+1E4B", "U+1E4A">>, <<"U+1E4D", "U+1E4C">>, <<"U+1E4F", "U+1E4E">>, <<"U+1E51", "U+1E50">>,
    <<"U+1E53", "U+1E52">>, <<"U+1E55", "U+1E54">>, <<"U+1E57", "U+1E56">>, <<"U+1E59", "U+1E58">>,
    <<"U+1E5B", "U+1E5A">>, <<"U+1E5D", "U+1E5C">>, <<"U+1E5F", "U+1E5E">>, <<"U+1E61", "U+1E60">>,
    <<"U+1E63", "U+1E62">>, <<"U+1E65", "U+1E64">>, <<"U+1E67", "U+1E66">>, <<"U+1E69", "U+1E68">>,
    <<"U+1E6B", "U+1E6A">>, <<"U+1E6D", "U+1E6C">>, <<"U+1E6F", "U+1E6E">>, <<"U+1E71", "U+1E70">>,
    <<"U+1E73", "U+1E72">>, <<"U+1E75", "U+1E74">>, <<"U+1E77", "U+1E76">>, <<"U+1E79", "U+1E78">>,
    <<"U+1E7B", "U+1E7A">>, <<"U+1E7D", "U+1E7C">>, <<"U+1E7F", "U+1E7E">>, <<"ẁ", "Ẁ">>,
    <<"ẃ", "Ẃ">>, <<"ẅ", "Ẅ">>, <<"ẇ", "Ẇ">>, <<"ẉ", "Ẉ">>, <<"ẋ", "Ẋ">>, <<"ẍ", "Ẍ">>,
    <<"ẏ", "Ẏ">>, <<"ẑ", "Ẑ">>, <<"ẓ", "Ẓ">>, <<"ẕ", "Ẕ">>, <<"ẛ", "U+1E60">>, <<"ạ", "Ạ">>,
    <<"ả", "Ả">>, <<"ấ", "Ấ">>, <<"ầ", "Ầ">>, <<"ẩ", "Ẩ">>, <<"ẫ", "Ẫ">>, <<"ậ", "Ậ">>,
    <<"ắ", "Ắ">>, <<"ằ", "Ằ">>, <<"ẳ", "Ẳ">>, <<"ẵ", "Ẵ">>, <<"ặ", "Ặ">>, <<"ẹ", "Ẹ">>,
    <<"ẻ", "Ẻ">>, <<"ẽ", "Ẽ">>, <<"ế", "Ế">>, <<"ề", "Ề">>, <<"ể", "Ể">>, <<"ễ", "Ễ">>,
    <<"ệ", "Ệ">>, <<"ỉ", "Ỉ">>, <<"ị", "Ị">>, <<"ọ", "Ọ">>, <<"ỏ", "Ỏ">>, <<"ố", "Ố">>,
    <<"ồ", "Ồ">>, <<"ổ", "Ổ">>, <<"ỗ", "Ỗ">>, <<"ộ", "Ộ">>, <<"ớ", "Ớ">>, <<"ờ", "Ờ">>,
    <<"ở", "Ở">>, <<"ỡ", "Ỡ">>, <<"ợ", "Ợ">>, <<"ụ", "Ụ">>, <<"ủ", "Ủ">>, <<"ứ", "Ứ">>,
    <<"ừ", "Ừ">>, <<"ử", "Ử">>, <<"ữ", "Ữ">>, <<"ự", "Ự">>, <<"ỳ", "Ỳ">>, <<"ỵ", "Ỵ">>,
    <<"ỷ", "Ỷ">>, <<"ỹ", "Ỹ">>, <<"ỻ", "Ỻ">>, <<"ỽ", "Ỽ">>, <<"ỿ", "Ỿ">>, <<"U+1F00", "U+1F08">>,
    <<"U+1F01", "U+1F09">>, <<"U+1F02", "U+1F0A">>, <<"U+1F03", "U+1F0B">>, <<"U+1F04", "U+1F0C">>,
    <<"U+1F05", "U+1F0D">>, <<"U+1F06", "U+1F0E">>, <<"U+1F07", "U+1F0F">>, <<"U+1F10", "U+1F18">>,
    <<"U+1F11", "U+1F19">>, <<"U+1F12", "U+1F1A">>, <<"U+1F13", "U+1F1B">>, <<"U+1F14", "U+1F1C">>,
    <<"U+1F15", "U+1F1D">>, <<"U+1F20", "U+1F28">>, <<"U+1F21", "U+1F29">>, <<"U+1F22", "U+1F2A">>,
    <<"U+1F23", "U+1F2B">>, <<"U+1F24", "U+1F2C">>, <<"U+1F25", "U+1F2D">>, <<"U+1F26", "U+1F2E">>,
    <<"U+1F27", "U+1F2F">>, <<"U+1F30", "U+1F38">>, <<"U+1F31", "U+1F39">>, <<"U+1F32", "U+1F3A">>,
    <<"U+1F33", "U+1F3B">>, <<"U+1F34", "U+1F3C">>, <<"U+1F35", "U+1F3D">>, <<"U+1F36", "U+1F3E">>,
    <<"U+1F37", "U+1F3F">>, <<"U+1F40", "U+1F48">>, <<"U+1F41", "U+1F49">>, <<"U+1F42", "U+1F4A">>,
    <<"U+1F43", "U+1F4B">>, <<"U+1F44", "U+1F4C">>, <<"U+1F45", "U+1F4D">>, <<"U+1F51", "U+1F59">>,
    <<"U+1F53", "U+1F5B">>, <<"U+1F55", "U+1F5D">>, <<"U+1F57", "U+1F5F">>, <<"U+1F60", "U+1F68">>,
    <<"U+1F61", "U+1F69">>, <<"U+1F62", "U+1F6A">>, <<"U+1F63", "U+1F6B">>, <<"U+1F64", "U+1F6C">>,
    <<"U+1F65", "U+1F6D">>, <<"U+1F66", "U+1F6E">>, <<"U+1F67", "U+1F6F">>, <<"U+1F70", "Ὰ">>,
    <<"U+1F71", "Ά">>, <<"U+1F72", "Ὲ">>, <<"U+1F73", "Έ">>, <<"U+1F74", "Ὴ">>, <<"U+1F75", "Ή">>,
    <<"U+1F76", "Ὶ">>, <<"U+1F77", "Ί">>, <<"U+1F78", "Ὸ">>, <<"U+1F79", "Ό">>, <<"U+1F7A", "Ὺ">>,
    <<"U+1F7B", "Ύ">>, <<"U+1F7C", "Ὼ">>, <<"U+1F7D", "Ώ">>, <<"ᾀ", "ᾈ">>, <<"ᾁ", "ᾉ">>,
    <<"ᾂ", "ᾊ">>, <<"ᾃ", "ᾋ">>, <<"ᾄ", "ᾌ">>, <<"ᾅ", "ᾍ">>, <<"ᾆ", "ᾎ">>, <<"ᾇ", "ᾏ">>,
    <<"ᾐ", "ᾘ">>, <<"ᾑ", "ᾙ">>, <<"ᾒ", "ᾚ">>, <<"ᾓ", "ᾛ">>, <<"ᾔ", "ᾜ">>, <<"ᾕ", "ᾝ">>,
    <<"ᾖ", "ᾞ">>, <<"ᾗ", "ᾟ">>, <<"ᾠ", "ᾨ">>, <<"ᾡ", "ᾩ">>, <<"ᾢ", "ᾪ">>, <<"ᾣ", "ᾫ">>,
    <<"ᾤ", "ᾬ">>, <<"ᾥ", "ᾭ">>, <<"ᾦ", "ᾮ">>, <<"ᾧ", "ᾯ">>, <<"ᾰ", "Ᾰ">>, <<"ᾱ", "Ᾱ">>,
    <<"ᾳ", "ᾼ">>, <<"ι", "Ι">>, <<"ῃ", "ῌ">>, <<"ῐ", "Ῐ">>, <<"ῑ", "Ῑ">>, <<"ῠ", "Ῠ">>,
    <<"ῡ", "Ῡ">>, <<"ῥ", "Ῥ">>, <<"ῳ", "ῼ">>, <<"U+214E", "U+2132">>, <<"U+2170", "U+2160">>,
    <<"U+2171", "U+2161">>, <<"U+2172", "U+2162">>, <<"U+2173", "U+2163">>, <<"U+2174", "U+2164">>,
    <<"U+2175", "U+2165">>, <<"U+2176", "U+2166">>, <<"U+2177", "U+2167">>, <<"U+2178", "U+2168">>,
    <<"U+2179", "U+2169">>, <<"U+217A", "U+216A">>, <<"U+217B", "U+216B">>, <<"U+217C", "U+216C">>,
    <<"U+217D", "U+216D">>, <<"U+217E", "U+216E">>, <<"U+217F", "U+216F">>, <<"ↄ", "Ↄ">>,
    <<"ⓐ", "Ⓐ">>, <<"ⓑ", "Ⓑ">>, <<"ⓒ", "Ⓒ">>, <<"ⓓ", "Ⓓ">>, <<"ⓔ", "Ⓔ">>, <<"ⓕ", "Ⓕ">>,
    <<"ⓖ", "Ⓖ">>, <<"ⓗ", "Ⓗ">>, <<"ⓘ", "Ⓘ">>, <<"ⓙ", "Ⓙ">>, <<"ⓚ", "Ⓚ">>, <<"ⓛ", "Ⓛ">>,
    <<"ⓜ", "Ⓜ">>, <<"ⓝ", "Ⓝ">>, <<"ⓞ", "Ⓞ">>, <<"ⓟ", "Ⓟ">>, <<"ⓠ", "Ⓠ">>, <<"ⓡ", "Ⓡ">>,
    <<"ⓢ", "Ⓢ">>, <<"ⓣ", "Ⓣ">>, <<"ⓤ", "Ⓤ">>, <<"ⓥ", "Ⓥ">>, <<"ⓦ", "Ⓦ">>, <<"ⓧ", "Ⓧ">>,
    <<"ⓨ", "Ⓨ">>, <<"ⓩ", "Ⓩ">>, <<"U+2C30", "U+2C00">>, <<"U+2C31", "U+2C01">>,
    <<"U+2C32", "U+2C02">>, <<"U+2C33", "U+2C03">>, <<"U+2C34", "U+2C04">>, <<"U+2C35", "U+2C05">>,
    <<"U+2C36", "U+2C06">>, <<"U+2C37", "U+2C07">>, <<"U+2C38", "U+2C08">>, <<"U+2C39", "U+2C09">>,
    <<"U+2C3A", "U+2C0A">>, <<"U+2C3B", "U+2C0B">>, <<"U+2C3C", "U+2C0C">>, <<"U+2C3D", "U+2C0D">>,
    <<"U+2C3E", "U+2C0E">>, <<"U+2C3F", "U+2C0F">>, <<"U+2C40", "U+2C10">>, <<"U+2C41", "U+2C11">>,
    <<"U+2C42", "U+2C12">>, <<"U+2C43", "U+2C13">>, <<"U+2C44", "U+2C14">>, <<"U+2C45", "U+2C15">>,
    <<"U+2C46", "U+2C16">>, <<"U+2C47", "U+2C17">>, <<"U+2C48", "U+2C18">>, <<"U+2C49", "U+2C19">>,
    <<"U+2C4A", "U+2C1A">>, <<"U+2C4B", "U+2C1B">>, <<"U+2C4C", "U+2C1C">>, <<"U+2C4D", "U+2C1D">>,
    <<"U+2C4E", "U+2C1E">>, <<"U+2C4F", "U+2C1F">>, <<"U+2C50", "U+2C20">>, <<"U+2C51", "U+2C21">>,
    <<"U+2C52", "U+2C22">>, <<"U+2C53", "U+2C23">>, <<"U+2C54", "U+2C24">>, <<"U+2C55", "U+2C25">>,
    <<"U+2C56", "U+2C26">>, <<"U+2C57", "U+2C27">>, <<"U+2C58", "U+2C28">>, <<"U+2C59", "U+2C29">>,
    <<"U+2C5A", "U+2C2A">>, <<"U+2C5B", "U+2C2B">>, <<"U+2C5C", "U+2C2C">>, <<"U+2C5D", "U+2C2D">>,
    <<"U+2C5E", "U+2C2E">>, <<"U+2C5F", "U+2C2F">>, <<"U+2C61", "U+2C60">>, <<"U+2C65", "U+023A">>,
    <<"U+2C66", "U+023E">>, <<"U+2C68", "U+2C67">>, <<"U+2C6A", "U+2C69">>, <<"U+2C6C", "U+2C6B">>,
    <<"U+2C73", "U+2C72">>, <<"U+2C76", "U+2C75">>, <<"ⲁ", "Ⲁ">>, <<"ⲃ", "Ⲃ">>, <<"ⲅ", "Ⲅ">>,
    <<"ⲇ", "Ⲇ">>, <<"ⲉ", "Ⲉ">>, <<"ⲋ", "Ⲋ">>, <<"ⲍ", "Ⲍ">>, <<"ⲏ", "Ⲏ">>, <<"ⲑ", "Ⲑ">>,
    <<"ⲓ", "Ⲓ">>, <<"ⲕ", "Ⲕ">>, <<"ⲗ", "Ⲗ">>, <<"ⲙ", "Ⲙ">>, <<"ⲛ", "Ⲛ">>, <<"ⲝ", "Ⲝ">>,
    <<"ⲟ", "Ⲟ">>, <<"ⲡ", "Ⲡ">>, <<"ⲣ", "Ⲣ">>, <<"ⲥ", "Ⲥ">>, <<"ⲧ", "Ⲧ">>, <<"ⲩ", "Ⲩ">>,
    <<"ⲫ", "Ⲫ">>, <<"ⲭ", "Ⲭ">>, <<"ⲯ", "Ⲯ">>, <<"ⲱ", "Ⲱ">>, <<"ⲳ", "Ⲳ">>, <<"ⲵ", "Ⲵ">>,
    <<"ⲷ", "Ⲷ">>, <<"ⲹ", "Ⲹ">>, <<"ⲻ", "Ⲻ">>, <<"ⲽ", "Ⲽ">>, <<"ⲿ", "Ⲿ">>, <<"ⳁ", "Ⳁ">>,
    <<"ⳃ", "Ⳃ">>, <<"ⳅ", "Ⳅ">>, <<"ⳇ", "Ⳇ">>, <<"ⳉ", "Ⳉ">>, <<"ⳋ", "Ⳋ">>, <<"ⳍ", "Ⳍ">>,
    <<"ⳏ", "Ⳏ">>, <<"ⳑ", "Ⳑ">>, <<"ⳓ", "Ⳓ">>, <<"ⳕ", "Ⳕ">>, <<"ⳗ", "Ⳗ">>, <<"ⳙ", "Ⳙ">>,
    <<"ⳛ", "Ⳛ">>, <<"ⳝ", "Ⳝ">>, <<"ⳟ", "Ⳟ">>, <<"ⳡ", "Ⳡ">>, <<"ⳣ", "Ⳣ">>, <<"ⳬ", "Ⳬ">>,
    <<"ⳮ", "Ⳮ">>, <<"ⳳ", "Ⳳ">>, <<"U+2D00", "Ⴀ">>, <<"U+2D01", "Ⴁ">>, <<"U+2D02", "Ⴂ">>,
    <<"U+2D03", "Ⴃ">>, <<"U+2D04", "Ⴄ">>, <<"U+2D05", "Ⴅ">>, <<"U+2D06", "Ⴆ">>, <<"U+2D07", "Ⴇ">>,
    <<"U+2D08", "Ⴈ">>, <<"U+2D09", "Ⴉ">>, <<"U+2D0A", "Ⴊ">>, <<"U+2D0B", "Ⴋ">>, <<"U+2D0C", "Ⴌ">>,
    <<"U+2D0D", "Ⴍ">>, <<"U+2D0E", "Ⴎ">>, <<"U+2D0F", "Ⴏ">>, <<"U+2D10", "Ⴐ">>, <<"U+2D11", "Ⴑ">>,
    <<"U+2D12", "Ⴒ">>, <<"U+2D13", "Ⴓ">>, <<"U+2D14", "Ⴔ">>, <<"U+2D15", "Ⴕ">>, <<"U+2D16", "Ⴖ">>,
    <<"U+2D17", "Ⴗ">>, <<"U+2D18", "Ⴘ">>, <<"U+2D19", "Ⴙ">>, <<"U+2D1A", "Ⴚ">>, <<"U+2D1B", "Ⴛ">>,
    <<"U+2D1C", "Ⴜ">>, <<"U+2D1D", "Ⴝ">>, <<"U+2D1E", "Ⴞ">>, <<"U+2D1F", "Ⴟ">>, <<"U+2D20", "Ⴠ">>,
    <<"U+2D21", "Ⴡ">>, <<"U+2D22", "Ⴢ">>, <<"U+2D23", "Ⴣ">>, <<"U+2D24", "Ⴤ">>, <<"U+2D25", "Ⴥ">>,
    <<"U+2D27", "Ⴧ">>, <<"U+2D2D", "Ⴭ">>, <<"U+A64B", "U+A64A">>, <<"U+AB70", "Ꭰ">>,
    <<"U+AB71", "Ꭱ">>, <<"U+AB72", "Ꭲ">>, <<"U+AB73", "Ꭳ">>, <<"U+AB74", "Ꭴ">>, <<"U+AB75", "Ꭵ">>,
    <<"U+AB76", "Ꭶ">>, <<"U+AB77", "Ꭷ">>, <<"U+AB78", "Ꭸ">>, <<"U+AB79", "Ꭹ">>, <<"U+AB7A", "Ꭺ">>,
    <<"U+AB7B", "Ꭻ">>, <<"U+AB7C", "Ꭼ">>, <<"U+AB7D", "Ꭽ">>, <<"U+AB7E", "Ꭾ">>, <<"U+AB7F", "Ꭿ">>,
    <<"ꮀ", "Ꮀ">>, <<"ꮁ", "Ꮁ">>, <<"ꮂ", "Ꮂ">>, <<"ꮃ", "Ꮃ">>, <<"ꮄ", "Ꮄ">>, <<"ꮅ", "Ꮅ">>,
    <<"ꮆ", "Ꮆ">>, <<"ꮇ", "Ꮇ">>, <<"ꮈ", "Ꮈ">>, <<"ꮉ", "Ꮉ">>, <<"ꮊ", "Ꮊ">>, <<"ꮋ", "Ꮋ">>,
    <<"ꮌ", "Ꮌ">>, <<"ꮍ", "Ꮍ">>, <<"ꮎ", "Ꮎ">>, <<"ꮏ", "Ꮏ">>, <<"ꮐ", "Ꮐ">>, <<"ꮑ", "Ꮑ">>,
    <<"ꮒ", "Ꮒ">>, <<"ꮓ", "Ꮓ">>, <<"ꮔ", "Ꮔ">>, <<"ꮕ", "Ꮕ">>, <<"ꮖ", "Ꮖ">>, <<"ꮗ", "Ꮗ">>,
    <<"ꮘ", "Ꮘ">>, <<"ꮙ", "Ꮙ">>, <<"ꮚ", "Ꮚ">>, <<"ꮛ", "Ꮛ">>, <<"ꮜ", "Ꮜ">>, <<"ꮝ", "Ꮝ">>,
    <<"ꮞ", "Ꮞ">>, <<"ꮟ", "Ꮟ">>, <<"ꮠ", "Ꮠ">>, <<"ꮡ", "Ꮡ">>, <<"ꮢ", "Ꮢ">>, <<"ꮣ", "Ꮣ">>,
    <<"ꮤ", "Ꮤ">>, <<"ꮥ", "Ꮥ">>, <<"ꮦ", "Ꮦ">>, <<"ꮧ", "Ꮧ">>, <<"ꮨ", "Ꮨ">>, <<"ꮩ", "Ꮩ">>,
    <<"ꮪ", "Ꮪ">>, <<"ꮫ", "Ꮫ">>, <<"ꮬ", "Ꮬ">>, <<"ꮭ", "Ꮭ">>, <<"ꮮ", "Ꮮ">>, <<"ꮯ", "Ꮯ">>,
    <<"ꮰ", "Ꮰ">>, <<"ꮱ", "Ꮱ">>, <<"ꮲ", "Ꮲ">>, <<"ꮳ", "Ꮳ">>, <<"ꮴ", "Ꮴ">>, <<"ꮵ", "Ꮵ">>,
    <<"ꮶ", "Ꮶ">>, <<"ꮷ", "Ꮷ">>, <<"ꮸ", "Ꮸ">>, <<"ꮹ", "Ꮹ">>, <<"ꮺ", "Ꮺ">>, <<"ꮻ", "Ꮻ">>,
    <<"ꮼ", "Ꮼ">>, <<"ꮽ", "Ꮽ">>, <<"ꮾ", "Ꮾ">>, <<"ꮿ", "Ꮿ">>
  }

\* str.title() of one character, where it is more than one character
TITLE_SPECIAL ==
  {
    <<"ß", <<"S", "s">>>>, <<"U+0149", <<"ʼ", "N">>>>, <<"ǰ", <<"J", "U+030C">>>>,
    <<"ΐ", <<"Ι", "U+0308", "U+0301">>>>, <<"ΰ", <<"Υ", "U+0308", "U+0301">>>>,
    <<"և", <<"U+0535", "ւ">>>>, <<"ẖ", <<"H", "U+0331">>>>, <<"ẗ", <<"T", "U+0308">>>>,
    <<"ẘ", <<"W", "U+030A">>>>, <<"ẙ", <<"Y", "U+030A">>>>, <<"ẚ", <<"A", "ʾ">>>>,
    <<"U+1F50", <<"Υ", "U+0313">>>>, <<"U+1F52", <<"Υ", "U+0313", "U+0300">>>>,
    <<"U+1F54", <<"Υ", "U+0313", "U+0301">>>>, <<"U+1F56", <<"Υ", "U+0313", "U+0342">>>>,
    <<"ᾲ", <<"Ὰ", "U+0345">>>>, <<"ᾴ", <<"Ά", "U+0345">>>>, <<"ᾶ", <<"Α", "U+0342">>>>,
    <<"ᾷ", <<"Α", "U+0342", "U+0345">>>>, <<"ῂ", <<"Ὴ", "U+0345">>>>, <<"ῄ", <<"Ή", "U+0345">>>>,
    <<"ῆ", <<"Η", "U+0342">>>>, <<"ῇ", <<"Η", "U+0342", "U+0345">>>>,
    <<"ῒ", <<"Ι", "U+0308", "U+0300">>>>, <<"ΐ", <<"Ι", "U+0308", "U+0301">>>>,
    <<"ῖ", <<"Ι", "U+0342">>>>, <<"ῗ", <<"Ι", "U+0308", "U+0342">>>>,
    <<"ῢ", <<"Υ", "U+0308", "U+0300">>>>, <<"ΰ", <<"Υ", "U+0308", "U+0301">>>>,
    <<"ῤ", <<"Ρ", "U+0313">>>>, <<"ῦ", <<"Υ", "U+0342">>>>, <<"ῧ", <<"Υ", "U+0308", "U+0342">>>>,
    <<"ῲ", <<"Ὼ", "U+0345">>>>, <<"ῴ", <<"Ώ", "U+0345">>>>, <<"ῶ", <<"Ω", "U+0342">>>>,
    <<"ῷ", <<"Ω", "U+0342", "U+0345">>>>
  }

\* the cased characters that str.lower() and str.title() leave unchanged
OTHER_CASED ==
  {
    "ª", "º", "U+0138", "ƍ", "ƛ", "ƪ", "ƫ", "ƺ", "ƾ", "U+0221", "U+0234", "U+0235", "U+0236",
    "U+0237", "U+0238", "U+0239", "U+0255", "U+0258", "U+025A", "U+025D", "U+025E", "U+025F",
    "U+0262", "U+0264", "U+0267", "U+026D", "U+026E", "U+0270", "U+0273", "U+0274", "U+0276",
    "U+0277", "U+0278", "U+0279", "U+027A", "U+027B", "U+027C", "U+027E", "U+027F", "ʁ", "ʄ", "ʅ",
    "ʆ", "ʍ", "ʎ", "ʏ", "ʐ", "ʑ", "ʓ", "ʕ", "ʖ", "ʗ", "ʘ", "ʙ", "ʚ", "ʛ", "ʜ", "ʟ", "ʠ", "ʡ", "ʢ",
    "ʣ", "ʤ", "ʥ", "ʦ", "ʧ", "ʨ", "ʩ", "ʪ", "ʫ", "ʬ", "ʭ", "ʮ", "ʯ", "ʰ", "ʱ", "ʲ", "ʳ", "ʴ", "ʵ",
    "ʶ", "ʷ", "ʸ", "ˀ", "ˁ", "ˠ", "ˡ", "ˢ", "ˣ", "ˤ", "U+037A", "ϒ", "ϓ", "ϔ", "ϼ", "U+0560", "ֈ",
    "ა", "ბ", "გ", "დ", "ე", "ვ", "ზ", "თ", "ი", "კ", "ლ", "მ", "ნ", "ო", "პ", "ჟ", "რ", "ს", "ტ",
    "უ", "ფ", "ქ", "ღ", "ყ", "შ", "ჩ", "ც", "ძ", "წ", "ჭ", "ხ", "ჯ", "ჰ", "ჱ", "ჲ", "ჳ", "ჴ", "ჵ",
    "ჶ", "ჷ", "ჸ", "ჹ", "ჺ", "ჽ", "ჾ", "ჿ", "U+1D00", "U+1D01", "U+1D02", "U+1D03", "U+1D04",
    "U+1D05", "U+1D06", "U+1D07", "U+1D08", "U+1D09", "U+1D0A", "U+1D0B", "U+1D0C", "U+1D0D",
    "U+1D0E", "U+1D0F", "U+1D10", "U+1D11", "U+1D12", "U+1D13", "U+1D14", "U+1D15", "U+1D16",
    "U+1D17", "U+1D18", "U+1D19", "U+1D1A", "U+1D1B", "U+1D1C", "U+1D1D", "U+1D1E", "U+1D1F",
    "U+1D20", "U+1D21", "U+1D22", "U+1D23", "U+1D24", "U+1D25", "U+1D26", "U+1D27", "U+1D28",
    "U+1D29", "U+1D2A", "U+1D2B", "U+1D2C", "U+1D2D", "U+1D2E", "U+1D2F", "U+1D30", "U+1D31",
    "U+1D32", "U+1D33", "U+1D34", "U+1D35", "U+1D36", "U+1D37", "U+1D38", "U+1D39", "U+1D3A",
    "U+1D3B", "U+1D3C", "U+1D3D", "U+1D3E", "U+1D3F", "U+1D40", "U+1D41", "U+1D42", "U+1D43",
    "U+1D44", "U+1D45", "U+1D46", "U+1D47", "U+1D48", "U+1D49", "U+1D4A", "U+1D4B", "U+1D4C",
    "U+1D4D", "U+1D4E", "U+1D4F", "U+1D50", "U+1D51", "U+1D52", "U+1D53", "U+1D54", "U+1D55",
    "U+1D56", "U+1D57", "U+1D58", "U+1D59", "U+1D5A", "U+1D5B", "U+1D5C", "U+1D5D", "U+1D5E",
    "U+1D5F", "U+1D60", "U+1D61", "U+1D62", "U+1D63", "U+1D64", "U+1D65", "U+1D66", "U+1D67",
    "U+1D68", "U+1D69", "U+1D6A", "U+1D6B", "U+1D6C", "U+1D6D", "U+1D6E", "U+1D6F", "U+1D70",
    "U+1D71", "U+1D72", "U+1D73", "U+1D74", "U+1D75", "U+1D76", "U+1D77", "U+1D78", "U+1D7A",
    "U+1D7B", "U+1D7C", "U+1D7E", "U+1D7F", "ᶀ", "ᶁ", "ᶂ", "ᶃ", "ᶄ", "ᶅ", "ᶆ", "ᶇ", "ᶈ", "ᶉ", "ᶊ",
    "ᶋ", "ᶌ", "ᶍ", "ᶏ", "ᶐ", "ᶑ", "ᶒ", "ᶓ", "ᶔ", "ᶕ", "ᶖ", "ᶗ", "ᶘ", "ᶙ", "ᶚ", "ᶛ", "ᶜ", "ᶝ", "ᶞ",
    "ᶟ", "ᶠ", "ᶡ", "ᶢ", "ᶣ", "ᶤ", "ᶥ", "ᶦ", "ᶧ", "ᶨ", "ᶩ", "ᶪ", "ᶫ", "ᶬ", "ᶭ", "ᶮ", "ᶯ", "ᶰ", "ᶱ",
    "ᶲ", "ᶳ", "ᶴ", "ᶵ", "ᶶ", "ᶷ", "ᶸ", "ᶹ", "ᶺ", "ᶻ", "ᶼ", "ᶽ", "ᶾ", "ᶿ", "ẜ", "ẝ", "ẟ", "U+2071",
    "U+207F", "ₐ", "ₑ", "ₒ", "ₓ", "ₔ", "ₕ", "ₖ", "ₗ", "ₘ", "ₙ", "ₚ", "ₛ", "ₜ", "U+2102", "U+2107",
    "U+210A", "U+210B", "U+210C", "U+210D", "U+210E", "U+210F", "U+2110", "U+2111", "U+2112",
    "U+2113", "U+2115", "U+2119", "U+211A", "U+211B", "U+211C", "U+211D", "U+2124", "U+2128",
    "U+212C", "U+212D", "U+212F", "U+2130", "U+2131", "U+2133", "U+2134", "U+2139", "U+213C",
    "U+213D", "U+213E", "U+213F", "U+2145", "U+2146", "U+2147", "U+2148", "U+2149", "U+2C71",
    "U+2C74", "U+2C77", "U+2C78", "U+2C79", "U+2C7A", "U+2C7B", "U+2C7C", "U+2C7D", "ⳤ"
  }

\* the characters str.lower() skips when it looks for the letter before or after a
\* capital sigma (case-ignorable and not cased: combining marks, modifiers, some punctuation)
CASE_IGNORABLE ==
  {
    "'", ".", ":", "^", "U+0060", "¨", "­", "¯", "´", "·", "¸", "ʰ", "ʱ", "ʲ", "ʳ", "ʴ", "ʵ", "ʶ",
    "ʷ", "ʸ", "ʹ", "ʺ", "ʻ", "ʼ", "ʽ", "ʾ", "ʿ", "ˀ", "ˁ", "˂", "˃", "˄", "˅", "ˆ", "ˇ", "ˈ", "ˉ",
    "ˊ", "ˋ", "ˌ", "ˍ", "ˎ", "ˏ", "ː", "ˑ", "˒", "˓", "˔", "˕", "˖", "˗", "˘", "˙", "˚", "˛", "˜",
    "˝", "˞", "˟", "ˠ", "ˡ", "ˢ", "ˣ", "ˤ", "˥", "˦", "˧", "˨", "˩", "˪", "˫", "ˬ", "˭", "ˮ", "˯",
    "˰", "˱", "˲", "˳", "˴", "˵", "˶", "˷", "˸", "˹", "˺", "˻", "˼", "˽", "˾", "˿", "U+0300",
    "U+0301", "U+0302", "U+0303", "U+0304", "U+0305", "U+0306", "U+0307", "U+0308", "U+0309",
    "U+030A", "U+030B", "U+030C", "U+030D", "U+030E", "U+030F", "U+0310", "U+0311", "U+0312",
    "U+0313", "U+0314", "U+0315", "U+0316", "U+0317", "U+0318", "U+0319", "U+031A", "U+031B",
    "U+031C", "U+031D", "U+031E", "U+031F", "U+0320", "U+0321", "U+0322", "U+0323", "U+0324",
    "U+0325", "U+0326", "U+0327", "U+0328", "U+0329", "U+032A", "U+032B", "U+032C", "U+032D",
    "U+032E", "U+032F", "U+0330", "U+0331", "U+0332", "U+0333", "U+0334", "U+0335", "U+0336",
    "U+0337", "U+0338", "U+0339", "U+033A", "U+033B", "U+033C", "U+033D", "U+033E", "U+033F",
    "U+0340", "U+0341", "U+0342", "U+0343", "U+0344", "U+0345", "U+0346", "U+0347", "U+0348",
    "U+0349", "U+034A", "U+034B", "U+034C", "U+034D", "U+034E", "U+034F", "U+0350", "U+0351",
    "U+0352", "U+0353", "U+0354", "U+0355", "U+0356", "U+0357", "U+0358", "U+0359", "U+035A",
    "U+035B", "U+035C", "U+035D", "U+035E", "U+035F", "U+0360", "U+0361", "U+0362", "U+0363",
    "U+0364", "U+0365", "U+0366", "U+0367", "U+0368", "U+0369", "U+036A", "U+036B", "U+036C",
    "U+036D", "U+036E", "U+036F", "U+0374", "U+0375", "U+037A", "΄", "΅", "·", "҃", "҄", "҅", "҆",
    "҇", "҈", "҉", "U+0559", "U+055F", "֑", "֒", "֓", "֔", "֕", "֖", "֗", "֘", "֙", "֚", "֛", "֜",
    "֝", "֞", "֟", "֠", "֡", "֢", "֣", "֤", "֥", "֦", "֧", "֨", "֩", "֪", "֫", "֬", "֭", "֮", "֯",
    "ְ", "ֱ", "ֲ", "ֳ", "ִ", "ֵ", "ֶ", "ַ", "ָ", "ֹ", "ֺ", "ֻ", "ּ", "ֽ", "ֿ", "ׁ", "ׂ", "ׄ", "ׅ",
    "ׇ", "״", "U+0600", "U+0601", "U+0602", "U+0603", "U+0604", "U+0605", "U+0610", "U+0611",
    "U+0612", "U+0613", "U+0614", "U+0615", "U+0616", "U+0617", "U+0618", "U+0619", "U+061A",
    "U+061C", "U+0640", "U+064B", "U+064C", "U+064D", "U+064E", "U+064F", "U+0650", "U+0651",
    "U+0652", "U+0653", "U+0654", "U+0655", "U+0656", "U+0657", "U+0658", "U+0659", "U+065A",
    "U+065B", "U+065C", "U+065D", "U+065E", "U+065F", "U+0670", "ۖ", "ۗ", "ۘ", "ۙ", "ۚ", "ۛ", "ۜ",
    "۝", "۟", "۠", "ۡ", "ۢ", "ۣ", "ۤ", "ۥ", "ۦ", "ۧ", "ۨ", "۪", "۫", "۬", "ۭ", "U+070F", "U+0711",
    "U+0730", "U+0731", "U+0732", "U+0733", "U+0734", "U+0735", "U+0736", "U+0737", "U+0738",
    "U+0739", "U+073A", "U+073B", "U+073C", "U+073D", "U+073E", "U+073F", "U+0740", "U+0741",
    "U+0742", "U+0743", "U+0744", "U+0745", "U+0746", "U+0747", "U+0748", "U+0749", "U+074A", "ަ",
    "ާ", "ި", "ީ", "ު", "ޫ", "ެ", "ޭ", "ޮ", "ޯ", "ް", "߫", "߬", "߭", "߮", "߯", "߰", "߱", "߲", "߳",
    "ߴ", "ߵ", "ߺ", "߽", "U+0816", "U+0817", "U+0818", "U+0819", "U+081A", "U+081B", "U+081C",
    "U+081D", "U+081E", "U+081F", "U+0820", "U+0821", "U+0822", "U+0823", "U+0824", "U+0825",
    "U+0826", "U+0827", "U+0828", "U+0829", "U+082A", "U+082B", "U+082C", "U+082D", "U+0859",
    "U+085A", "U+085B", "࢈", "࢐", "࢑", "࢘", "࢙", "࢚", "࢛", "࢜", "࢝", "࢞", "࢟", "ࣉ", "࣊", "࣋", "࣌",
    "࣍", "࣎", "࣏", "࣐", "࣑", "࣒", "࣓", "ࣔ", "ࣕ", "ࣖ", "ࣗ", "ࣘ", "ࣙ", "ࣚ", "ࣛ", "ࣜ", "ࣝ", "ࣞ", "ࣟ",
    "࣠", "࣡", "࣢", "ࣣ", "ࣤ", "ࣥ", "ࣦ", "ࣧ", "ࣨ", "ࣩ", "࣪", "࣫", "࣬", "࣭", "࣮", "࣯", "ࣰ", "ࣱ", "ࣲ",
    "ࣳ", "ࣴ", "ࣵ", "ࣶ", "ࣷ", "ࣸ", "ࣹ", "ࣺ", "ࣻ", "ࣼ", "ࣽ", "ࣾ", "ࣿ", "U+0900", "U+0901", "U+0902",
    "U+093A", "U+093C", "U+0941", "U+0942", "U+0943", "U+0944", "U+0945", "U+0946", "U+0947",
    "U+0948", "U+094D", "U+0951", "U+0952", "U+0953", "U+0954", "U+0955", "U+0956", "U+0957",
    "U+0962", "U+0963", "U+0971", "ঁ", "়", "ু", "ূ", "ৃ", "ৄ", "্", "ৢ", "ৣ", "৾", "U+0A01",
    "U+0A02", "U+0A3C", "U+0A41", "U+0A42", "U+0A47", "U+0A48", "U+0A4B", "U+0A4C", "U+0A4D",
    "U+0A51", "U+0A70", "U+0A71", "U+0A75", "ઁ", "ં", "઼", "ુ", "ૂ", "ૃ", "ૄ", "ૅ", "ે", "ૈ", "્",
    "ૢ", "ૣ", "ૺ", "ૻ", "ૼ", "૽", "૾", "૿", "U+0B01", "U+0B3C", "U+0B3F", "U+0B41", "U+0B42",
    "U+0B43", "U+0B44", "U+0B4D", "U+0B55", "U+0B56", "U+0B62", "U+0B63", "ஂ", "ீ", "்", "U+0C00",
    "U+0C04", "U+0C3C", "U+0C3E", "U+0C3F", "U+0C40", "U+0C46", "U+0C47", "U+0C48", "U+0C4A",
    "U+0C4B", "U+0C4C", "U+0C4D", "U+0C55", "U+0C56", "U+0C62", "U+0C63", "ಁ", "಼", "ಿ", "ೆ", "ೌ",
    "್", "ೢ", "ೣ", "U+0D00", "U+0D01", "U+0D3B", "U+0D3C", "U+0D41", "U+0D42", "U+0D43", "U+0D44",
    "U+0D4D", "U+0D62", "U+0D63", "ඁ", "්", "ි", "ී", "ු", "ූ", "U+0E31", "U+0E34", "U+0E35",
    "U+0E36", "U+0E37", "U+0E38", "U+0E39", "U+0E3A", "U+0E46", "U+0E47", "U+0E48", "U+0E49",
    "U+0E4A", "U+0E4B", "U+0E4C", "U+0E4D", "U+0E4E", "ັ", "ິ", "ີ", "ຶ", "ື", "ຸ", "ູ", "຺", "ົ",
    "ຼ", "ໆ", "່", "້", "໊", "໋", "໌", "ໍ", "U+0F18", "U+0F19", "U+0F35", "U+0F37", "U+0F39",
    "U+0F71", "U+0F72", "U+0F73", "U+0F74", "U+0F75", "U+0F76", "U+0F77", "U+0F78", "U+0F79",
    "U+0F7A", "U+0F7B", "U+0F7C", "U+0F7D", "U+0F7E", "ྀ", "ཱྀ", "ྂ", "ྃ", "྄", "྆", "྇", "ྍ", "ྎ",
    "ྏ", "ྐ", "ྑ", "ྒ", "ྒྷ", "ྔ", "ྕ", "ྖ", "ྗ", "ྙ", "ྚ", "ྛ", "ྜ", "ྜྷ", "ྞ", "ྟ", "ྠ", "ྡ", "ྡྷ",
    "ྣ", "ྤ", "ྥ", "ྦ", "ྦྷ", "ྨ", "ྩ", "ྪ", "ྫ", "ྫྷ", "ྭ", "ྮ", "ྯ", "ྰ", "ྱ", "ྲ", "ླ", "ྴ", "ྵ",
    "ྶ", "ྷ", "ྸ", "ྐྵ", "ྺ", "ྻ", "ྼ", "࿆", "U+102D", "U+102E", "U+102F", "U+1030", "U+1032",
    "U+1033", "U+1034", "U+1035", "U+1036", "U+1037", "U+1039", "U+103A", "U+103D", "U+103E",
    "U+1058", "U+1059", "U+105E", "U+105F", "U+1060", "U+1071", "U+1072", "U+1073", "U+1074", "ႂ",
    "ႅ", "ႆ", "ႍ", "ႝ", "ჼ", "U+135D", "U+135E", "U+135F", "U+1712", "U+1713", "U+1714", "U+1732",
    "U+1733", "U+1752", "U+1753", "U+1772", "U+1773", "឴", "឵", "ិ", "ី", "ឹ", "ឺ", "ុ", "ូ", "ួ",
    "ំ", "៉", "៊", "់", "៌", "៍", "៎", "៏", "័", "៑", "្", "៓", "ៗ", "៝", "U+180B", "U+180C",
    "U+180D", "U+180E", "U+180F", "U+1843", "ᢅ", "ᢆ", "ᢩ", "U+1920", "U+1921", "U+1922", "U+1927",
    "U+1928", "U+1932", "U+1939", "U+193A", "U+193B", "U+1A17", "U+1A18", "U+1A1B", "U+1A56",
    "U+1A58", "U+1A59", "U+1A5A", "U+1A5B", "U+1A5C", "U+1A5D", "U+1A5E", "U+1A60", "U+1A62",
    "U+1A65", "U+1A66", "U+1A67", "U+1A68", "U+1A69", "U+1A6A", "U+1A6B", "U+1A6C", "U+1A73",
    "U+1A74", "U+1A75", "U+1A76", "U+1A77", "U+1A78", "U+1A79", "U+1A7A", "U+1A7B", "U+1A7C",
    "U+1A7F", "ᪧ", "᪰", "᪱", "᪲", "᪳", "᪴", "᪵", "᪶", "᪷", "᪸", "᪹", "᪺", "᪻", "᪼", "᪽", "᪾", "ᪿ",
    "ᫀ", "᫁", "᫂", "᫃", "᫄", "᫅", "᫆", "᫇", "᫈", "᫉", "᫊", "᫋", "ᫌ", "ᫍ", "ᫎ", "U+1B00", "U+1B01",
    "U+1B02", "U+1B03", "U+1B34", "U+1B36", "U+1B37", "U+1B38", "U+1B39", "U+1B3A", "U+1B3C",
    "U+1B42", "U+1B6B", "U+1B6C", "U+1B6D", "U+1B6E", "U+1B6F", "U+1B70", "U+1B71", "U+1B72",
    "U+1B73", "ᮀ", "ᮁ", "ᮢ", "ᮣ", "ᮤ", "ᮥ", "ᮨ", "ᮩ", "᮫", "ᮬ", "ᮭ", "᯦", "ᯨ", "ᯩ", "ᯭ", "ᯯ", "ᯰ",
    "ᯱ", "U+1C2C", "U+1C2D", "U+1C2E", "U+1C2F", "U+1C30", "U+1C31", "U+1C32", "U+1C33", "U+1C36",
    "U+1C37", "U+1C78", "U+1C79", "U+1C7A", "U+1C7B", "U+1C7C", "U+1C7D", "᳐", "᳑", "᳒", "᳔", "᳕",
    "᳖", "᳗", "᳘", "᳙", "᳚", "᳛", "᳜", "᳝", "᳞", "᳟", "᳠", "᳢", "᳣", "᳤", "᳥", "᳦", "᳧", "᳨", "᳭",
    "᳴", "᳸", "᳹", "U+1D2C", "U+1D2D", "U+1D2E", "U+1D2F", "U+1D30", "U+1D31", "U+1D32", "U+1D33",
    "U+1D34", "U+1D35", "U+1D36", "U+1D37", "U+1D38", "U+1D39", "U+1D3A", "U+1D3B", "U+1D3C",
    "U+1D3D", "U+1D3E", "U+1D3F", "U+1D40", "U+1D41", "U+1D42", "U+1D43", "U+1D44", "U+1D45",
    "U+1D46", "U+1D47", "U+1D48", "U+1D49", "U+1D4A", "U+1D4B", "U+1D4C", "U+1D4D", "U+1D4E",
    "U+1D4F", "U+1D50", "U+1D51", "U+1D52", "U+1D53", "U+1D54", "U+1D55", "U+1D56", "U+1D57",
    "U+1D58", "U+1D59", "U+1D5A", "U+1D5B", "U+1D5C", "U+1D5D", "U+1D5E", "U+1D5F", "U+1D60",
    "U+1D61", "U+1D62", "U+1D63", "U+1D64", "U+1D65", "U+1D66", "U+1D67", "U+1D68", "U+1D69",
    "U+1D6A", "U+1D78", "ᶛ", "ᶜ", "ᶝ", "ᶞ", "ᶟ", "ᶠ", "ᶡ", "ᶢ", "ᶣ", "ᶤ", "ᶥ", "ᶦ", "ᶧ", "ᶨ", "ᶩ",
    "ᶪ", "ᶫ", "ᶬ", "ᶭ", "ᶮ", "ᶯ", "ᶰ", "ᶱ", "ᶲ", "ᶳ", "ᶴ", "ᶵ", "ᶶ", "ᶷ", "ᶸ", "ᶹ", "ᶺ", "ᶻ", "ᶼ",
    "ᶽ", "ᶾ", "ᶿ", "᷀", "᷁", "᷂", "᷃", "᷄", "᷅", "᷆", "᷇", "᷈", "᷉", "᷊", "᷋", "᷌", "᷍", "᷎", "᷏",
    "᷐", "᷑", "᷒", "ᷓ", "ᷔ", "ᷕ", "ᷖ", "ᷗ", "ᷘ", "ᷙ", "ᷚ", "ᷛ", "ᷜ", "ᷝ", "ᷞ", "ᷟ", "ᷠ", "ᷡ", "ᷢ",
    "ᷣ", "ᷤ", "ᷥ", "ᷦ", "ᷧ", "ᷨ", "ᷩ", "ᷪ", "ᷫ", "ᷬ", "ᷭ", "ᷮ", "ᷯ", "ᷰ", "ᷱ", "ᷲ", "ᷳ", "ᷴ", "᷵",
    "᷶", "᷷", "᷸", "᷹", "᷺", "᷻", "᷼", "᷽", "᷾", "᷿", "᾽", "᾿", "῀", "῁", "῍", "῎", "῏", "῝", "῞",
    "῟", "῭", "΅", "`", "´", "῾", "U+200B", "U+200C", "U+200D", "U+200E", "U+200F", "U+2018",
    "U+2019", "U+2024", "U+2027", "U+202A", "U+202B", "U+202C", "U+202D", "U+202E", "U+2060",
    "U+2061", "U+2062", "U+2063", "U+2064", "U+2066", "U+2067", "U+2068", "U+2069", "U+206A",
    "U+206B", "U+206C", "U+206D", "U+206E", "U+206F", "U+2071", "U+207F", "ₐ", "ₑ", "ₒ", "ₓ", "ₔ",
    "ₕ", "ₖ", "ₗ", "ₘ", "ₙ", "ₚ", "ₛ", "ₜ", "⃐", "⃑", "⃒", "⃓", "⃔", "⃕", "⃖", "⃗", "⃘", "⃙", "⃚",
    "⃛", "⃜", "⃝", "⃞", "⃟", "⃠", "⃡", "⃢", "⃣", "⃤", "⃥", "⃦", "⃧", "⃨", "⃩", "⃪", "⃫", "⃬", "⃭",
    "⃮", "⃯", "⃰", "U+2C7C", "U+2C7D", "⳯", "⳰", "⳱", "U+2D6F", "U+2D7F", "ⷠ", "ⷡ", "ⷢ", "ⷣ", "ⷤ",
    "ⷥ", "ⷦ", "ⷧ", "ⷨ", "ⷩ", "ⷪ", "ⷫ", "ⷬ", "ⷭ", "ⷮ", "ⷯ", "ⷰ", "ⷱ", "ⷲ", "ⷳ", "ⷴ", "ⷵ", "ⷶ", "ⷷ",
    "ⷸ", "ⷹ", "ⷺ", "ⷻ", "ⷼ", "ⷽ", "ⷾ", "ⷿ", "U+2E2F"
  }

\* the characters the regex engine counts as cased although str.lower() and str.title()
\* leave them unchanged (they have an upper-case form)
SRE_OTHER_CASED ==
  {
    "ა", "ბ", "გ", "დ", "ე", "ვ", "ზ", "თ", "ი", "კ", "ლ", "მ", "ნ", "ო", "პ", "ჟ", "რ", "ს", "ტ",
    "უ", "ფ", "ქ", "ღ", "ყ", "შ", "ჩ", "ც", "ძ", "წ", "ჭ", "ხ", "ჯ", "ჰ", "ჱ", "ჲ", "ჳ", "ჴ", "ჵ",
    "ჶ", "ჷ", "ჸ", "ჹ", "ჺ", "ჽ", "ჾ", "ჿ"
  }

\* the characters re.IGNORECASE takes as equal beyond those with the same lower-case form
IGNORECASE_FIXES ==
  {
    {"i", "U+0131"}, {"s", "U+017F"}, {"µ", "μ"}, {"U+0345", "ι", "ι"}, {"ΐ", "ΐ"}, {"ΰ", "ΰ"},
    {"β", "ϐ"}, {"ε", "ϵ"}, {"θ", "ϑ"}, {"κ", "ϰ"}, {"π", "ϖ"}, {"ρ", "ϱ"}, {"ς", "σ"}, {"φ", "ϕ"},
    {"U+0432", "ᲀ"}, {"U+0434", "ᲁ"}, {"U+043E", "ᲂ"}, {"U+0441", "ᲃ"}, {"U+0442", "ᲄ", "ᲅ"},
    {"U+044A", "ᲆ"}, {"U+0463", "ᲇ"}, {"ᲈ", "U+A64B"}, {"U+1E61", "ẛ"}
  }

(* --------------------------- Python str helpers ------------------------ *)

LowerFrom ==
  {p[1] : p \in LOWER_PAIRS} \cup {p[1] : p \in LOWER_SPECIAL}

TitleFrom ==
  {p[1] : p \in TITLE_PAIRS} \cup {p[1] : p \in TITLE_SPECIAL}

\* c.lower() for a character c, as a text (it is two characters for "U+0130")
LowerChar(c) ==
  IF c \in UpperSet THEN <<ToLower[c]>>
  ELSE IF c \in LowerFrom
       THEN IF \E p \in LOWER_SPECIAL : p[1] = c
            THEN (CHOOSE p \in LOWER_SPECIAL : p[1] = c)[2]
            ELSE <<(CHOOSE p \in LOWER_PAIRS : p[1] = c)[2]>>
       ELSE <<c>>

\* c.title() for a character c, as a text: the form str.title() gives the first
\* letter of a word (an upper-case letter; "Ss" for sharp s)
UpperChar(c) ==
  IF c \in LowerSet THEN <<ToUpper[c]>>
  ELSE IF c \in TitleFrom
       THEN IF \E p \in TITLE_SPECIAL : p[1] = c
            THEN (CHOOSE p \in TITLE_SPECIAL : p[1] = c)[2]
            ELSE <<(CHOOSE p \in TITLE_PAIRS : p[1] = c)[2]>>
       ELSE <<c>>

\* the cased characters: what str.title() and str.lower() take as a letter
IsLetter(c) ==
  \/ c \in UpperSet \/ c \in LowerSet
  \/ c \in LowerFrom \/ c \in TitleFrom \/ c \in OTHER_CASED

IsCaseIgnorable(c) ==
  c \in CASE_IGNORABLE

\* regex \d
IsDigit(c) ==
  c \in DIGITS \/ \E v \in 1..10 : c \in NON_ASCII_DIGITS[v]

\* regex \s, and the whitespace of str.strip() and str.split()
IsSpace(c) ==
  c \in WHITESPACE

\* regex \w
IsWordChar(c) ==
  \/ c \in UpperSet \/ c \in LowerSet \/ c \in DIGITS \/ c = "_"
  \/ c \in NON_ASCII_WORD_CHARS

\* F applied to the value of x: x is evaluated once, however often F uses it
With(x, F(_)) ==
  CHOOSE r \in {F(v) : v \in {x}} : TRUE

\* the concatenation of the texts ts[i], ts[i+1], ...
RECURSIVE FlatFrom(_, _)
FlatFrom(ts, i) ==
  IF i > Len(ts) THEN <<>>
  ELSE IF i = Len(ts) THEN ts[i]
  ELSE With((i + Len(ts)) \div 2, LAMBDA mid :
         FlatFrom(SubSeq(ts, 1, mid), i) \o FlatFrom(ts, mid + 1))

\* the concatenation of a sequence of texts
Flat(ts) ==
  FlatFrom(ts, 1)

\* str.lower() turns a capital sigma into the final form when a cased character
\* comes before it and none comes after it, case-ignorable characters skipped
FinalSigma(s, i) ==
  LET before == {j \in 1..(i - 1) : ~IsCaseIgnorable(s[j])}
      after  == {j \in (i + 1)..Len(s) : ~IsCaseIgnorable(s[j])}
  IN  /\ before # {}
      /\ IsLetter(s[CHOOSE j \in before : \A k \in before : k <= j])
      /\ after = {} \/ ~IsLetter(s[CHOOSE j \in after : \A k \in after : j <= k])

\* what str.lower() puts for the character at position i of s
LowerAt(s, i) ==
  IF s[i] = "Σ"
  THEN IF FinalSigma(s, i) THEN <<"ς">> ELSE <<"σ">>
  ELSE LowerChar(s[i])

\* str.lower()
lower(s) ==
  With(s, LAMBDA t : With([i \in 1..Len(t) |-> LowerAt(t, i)], Flat))

\* str.title(): a character is title-cased after an uncased character and
\* lower-cased after a cased one
title(s) ==
  With(s, LAMBDA t :
    With([i \in 1..Len(t) |-> IF i > 1 /\ IsLetter(t[i-1])
                              THEN LowerAt(t, i) ELSE UpperChar(t[i])], Flat))

\* str.strip()
strip(s) ==
  With(s, LAMBDA t :
    With({i \in 1..Len(t) : ~IsSpace(t[i])}, LAMBDA nonsp :
      IF nonsp = {} THEN <<>>
      ELSE SubSeq(t, CHOOSE i \in nonsp : \A j \in nonsp : i <= j,
                     CHOOSE i \in nonsp : \A j \in nonsp : i >= j)))

\* str.split(): the maximal runs of non-whitespace, in order
RECURSIVE SplitFrom(_, _)
SplitFrom(s, i) ==
  IF i > Len(s) THEN <<>>
  ELSE IF IsSpace(s[i]) THEN SplitFrom(s, i + 1)
  ELSE With({j \in i..Len(s) : j = Len(s) \/ IsSpace(s[j+1])}, LAMBDA ends :
         With(CHOOSE j \in ends : \A k \in ends : j <= k, LAMBDA e :
           <<SubSeq(s, i, e)>> \o SplitFrom(s, e + 1)))

split(s) ==
  With(s, LAMBDA t : SplitFrom(t, 1))

\* s[i:i+len(w)] == w
MatchesAt(w, s, i) ==
  /\ i + Len(w) - 1 <= Len(s)
  /\ \A k \in 1..Len(w) : s[i + k - 1] = w[k]

\* "sub in s"
Contains(sub, s) ==
  \E i \in 1..(Len(s) - Len(sub) + 1) : MatchesAt(sub, s, i)

\* s.startswith(p)
StartsWith(s, p) ==
  MatchesAt(p, s, 1)

\* the text of a character sequence
RECURSIVE Str(_)
Str(s) ==
  IF s = <<>> THEN "" ELSE Head(s) \o Str(Tail(s))

(* ------------------------------ regex helpers -------------------------- *)

\* the lower-case form the regex engine compares under re.IGNORECASE
SreLower(c) ==
  Head(LowerChar(c))

\* whether the regex engine ignores the case of a pattern character
SreIsCased(c) ==
  \/ c \in UpperSet \/ c \in LowerSet
  \/ c \in LowerFrom \/ c \in TitleFrom \/ c \in SRE_OTHER_CASED

FixChars ==
  UNION IGNORECASE_FIXES

\* ASCII small letters, digits and the space: two of them match only when equal
PlainChars ==
  LowerSet \cup DIGITS \cup {" "}

\* a pattern character p against a text character c under re.IGNORECASE
IgnoreCaseEq(p, c) ==
  \/ p = c
  \/ /\ ~(p \in PlainChars /\ c \in PlainChars)
     /\ SreIsCased(p)
     /\ LET lo == SreLower(p)
            lc == SreLower(c)
        IN  \/ lo = lc
            \/ /\ lo \in FixChars
               /\ lc \in FixChars
               /\ \E k \in IGNORECASE_FIXES : lo \in k /\ lc \in k

\* the literal w matches at position i of s under re.IGNORECASE
IMatchesAt(w, s, i) ==
  /\ i + Len(w) - 1 <= Len(s)
  /\ \A k \in 1..Len(w) : With(s[i + k - 1], LAMBDA c : IgnoreCaseEq(w[k], c))


\* regex \b at the gap before position p (1..Len(s)+1)
WordBoundary(s, p) ==
  LET before == p > 1 /\ IsWordChar(s[p-1])
      after  == p <= Len(s) /\ IsWordChar(s[p])
  IN  before # after

\* faulty variant: the alternatives are tried shortest first
AltMatchLen_ShortestFirst(alts, s, i) ==
  IF ~WordBoundary(s, i) THEN 0
  ELSE With({w \in alts : /\ IMatchesAt(w, s, i)
                          /\ WordBoundary(s, i + Len(w))}, LAMBDA cand :
         IF cand = {} THEN 0
         ELSE Len(CHOOSE w \in cand : \A v \in cand : Len(v) >= Len(w)))

\* \b(a1|a2|...)\b tried at position i of s under re.IGNORECASE, alternatives
\* longest first:
\* the length of the match, 0 when none matches
AltMatchLen(alts, s, i) ==
  IF ~WordBoundary(s, i) THEN 0
  ELSE With({w \in alts : /\ IMatchesAt(w, s, i)
                          /\ WordBoundary(s, i + Len(w))}, LAMBDA cand :
         IF cand = {} THEN 0
         ELSE Len(CHOOSE w \in cand : \A v \in cand : Len(v) <= Len(w)))

\* regex.search: the leftmost position with a match, 0 when there is none
AltSearch(alts, s) ==
  With({i \in 1..Len(s) : AltMatchLen(alts, s, i) > 0}, LAMBDA hits :
    IF hits = {} THEN 0 ELSE CHOOSE i \in hits : \A j \in hits : i <= j)

(* ------------------------------ None values ---------------------------- *)

\* Python None in a text field, a label field and a number field
NoneStr ==
  <<"<None>">>

NoneLabel ==
  "<None>"

NoneNum ==
  -1

(* ------------------------------ pattern registry ----------------------- *)

COUNTRIES ==
  {
    <<"l","o","c","a","l">>, <<"p","h","i","l","i","p","p","i","n","e","s">>, <<"e","g","y","p","t">>,
    <<"s","a","u","d","i">>, <<"s","a","u","d","i"," ","a","r","a","b","i","a">>, <<"c","h","i","n","a">>,
    <<"t","u","n","i","s","i","a">>, <<"s","o","u","t","h"," ","a","f","r","i","c","a">>,
    <<"s","p","a","i","n">>, <<"t","a","n","z","a","n","i","a">>, <<"i","t","a","l","y">>, <<"u","s","a">>,
    <<"u","n","i","t","e","d"," ","s","t","a","t","e","s">>, <<"b","r","a","z","i","l">>,
    <<"i","n","d","i","a">>, <<"t","u","r","k","e","y">>, <<"l","e","b","a","n","o","n">>,
    <<"j","o","r","d","a","n">>, <<"m","o","r","o","c","c","o">>, <<"f","r","a","n","c","e">>,
    <<"g","e","r","m","a","n","y">>, <<"n","e","t","h","e","r","l","a","n","d","s">>, <<"u","k">>,
    <<"u","a","e">>, <<"q","a","t","a","r">>, <<"b","a","h","r","a","i","n">>, <<"k","u","w","a","i","t">>,
    <<"o","m","a","n">>, <<"y","e","m","e","n">>, <<"p","a","k","i","s","t","a","n">>,
    <<"b","a","n","g","l","a","d","e","s","h">>, <<"t","h","a","i","l","a","n","d">>,
    <<"v","i","e","t","n","a","m">>, <<"m","a","l","a","y","s","i","a">>,
    <<"i","n","d","o","n","e","s","i","a">>, <<"a","u","s","t","r","a","l","i","a">>
  }

UNIT_KEYWORDS ==
  {
    <<"k","g">>, <<"g">>, <<"g","r","a","m">>, <<"g","r","a","m","s">>, <<"k","i","l","o","g","r","a","m">>,
    <<"k","i","l","o","g","r","a","m","s">>, <<"l","b">>, <<"p","o","u","n","d">>,
    <<"p","o","u","n","d","s">>, <<"l","b","s">>, <<"o","z">>, <<"o","u","n","c","e">>,
    <<"o","u","n","c","e","s">>, <<"l","i","t","e","r">>, <<"l">>, <<"l","i","t","r","e">>,
    <<"l","i","t","e","r","s">>, <<"l","i","t","r","e","s">>, <<"m","l">>, <<"p","k","t">>,
    <<"p","a","c","k","e","t">>, <<"p","a","c","k","e","t","s">>, <<"b","u","n","c","h">>,
    <<"b","u","n","c","h","e","s">>, <<"b","o","x">>, <<"b","o","x","e","s">>, <<"b","a","g">>,
    <<"b","a","g","s">>, <<"p","i","e","c","e">>, <<"p","i","e","c","e","s">>, <<"p","c","s">>,
    <<"d","o","z","e","n">>, <<"d","o","z","e","n","s">>, <<"b","u","n","d","l","e">>,
    <<"b","u","n","d","l","e","s">>, <<"h","e","a","d">>, <<"h","e","a","d","s">>,
    <<"b","o","t","t","l","e">>, <<"b","o","t","t","l","e","s">>, <<"c","a","n">>, <<"c","a","n","s">>,
    <<"t","i","n">>, <<"t","i","n","s">>, <<"j","a","r">>, <<"j","a","r","s">>, <<"t","u","b","e">>,
    <<"t","u","b","e","s">>, <<"r","o","l","l">>, <<"r","o","l","l","s">>, <<"s","h","e","e","t">>,
    <<"s","h","e","e","t","s">>, <<"s","l","i","c","e">>, <<"s","l","i","c","e","s">>, <<"p","a","c","k">>,
    <<"p","a","c","k","s">>, <<"t","r","a","y">>, <<"u","n","i","t">>, <<"u","n","i","t","s">>
  }

DESCRIPTIVE_WORDS ==
  {
    <<"f","a","r","m">>, <<"f","r","e","s","h">>, <<"o","r","g","a","n","i","c">>,
    <<"p","r","e","m","i","u","m">>, <<"n","a","t","u","r","a","l">>,
    <<"s","u","s","t","a","i","n","a","b","l","e">>, <<"q","u","a","l","i","t","y">>, <<"g","r","a","d","e">>,
    <<"t","y","p","e">>, <<"v","a","r","i","e","t","y">>, <<"b","r","a","n","d">>,
    <<"d","e","l","u","x","e">>, <<"l","u","x","u","r","y">>, <<"g","o","u","r","m","e","t">>,
    <<"a","r","t","i","s","a","n","a","l">>, <<"h","a","n","d","c","r","a","f","t","e","d">>,
    <<"h","o","m","e","m","a","d","e">>, <<"t","r","a","d","i","t","i","o","n","a","l">>,
    <<"a","u","t","h","e","n","t","i","c">>, <<"g","e","n","u","i","n","e">>, <<"p","u","r","e">>,
    <<"s","m","a","l","l">>, <<"m","e","d","i","u","m">>, <<"l","a","r","g","e">>, <<"e","x","t","r","a">>,
    <<"s","u","p","e","r">>, <<"m","e","g","a">>, <<"j","u","m","b","o">>, <<"m","i","n","i">>,
    <<"b","a","b","y">>, <<"b","i","g">>, <<"t","h","e","r","m","o">>, <<"r","i","p","e">>, <<"r","a","w">>,
    <<"c","o","o","k","e","d">>, <<"f","r","o","z","e","n">>, <<"d","r","i","e","d">>,
    <<"f","r","e","s","h","l","y">>, <<"l","o","c","a","l","l","y">>, <<"g","r","o","w","n">>,
    <<"h","a","r","v","e","s","t","e","d">>, <<"p","i","c","k","e","d">>, <<"s","e","l","e","c","t","e","d">>,
    <<"r","e","d">>, <<"g","r","e","e","n">>, <<"y","e","l","l","o","w">>, <<"o","r","a","n","g","e">>,
    <<"p","u","r","p","l","e">>, <<"b","l","u","e">>, <<"w","h","i","t","e">>, <<"b","l","a","c","k">>,
    <<"b","r","o","w","n">>, <<"p","i","n","k">>, <<"g","o","l","d","e","n">>, <<"r","o","y","a","l">>,
    <<"g","a","l","a">>, <<"f","u","j","i">>, <<"g","r","a","n","n","y">>, <<"s","m","i","t","h">>,
    <<"h","o","n","e","y","c","r","i","s","p">>, <<"d","e","l","i","c","i","o","u","s">>, <<"l","a","d","y">>,
    <<"b","r","a","e","b","u","r","n">>
  }

COMPLEXITY_KEYWORDS ==
  {
    <<"o","r","g","a","n","i","c">>, <<"p","r","e","m","i","u","m">>, <<"f","r","e","s","h">>,
    <<"n","a","t","u","r","a","l">>, <<"s","u","s","t","a","i","n","a","b","l","e">>,
    <<"f","a","i","r","-","t","r","a","d","e">>, <<"q","u","a","l","i","t","y">>, <<"g","r","a","d","e">>,
    <<"t","y","p","e">>, <<"v","a","r","i","e","t","y">>, <<"b","r","a","n","d">>
  }


\* the alternatives of UnitExtractor.compound_units
COMPOUND_UNITS ==
  {
    <<"s","m","a","l","l"," ","b","o","x">>,
    <<"m","e","d","i","u","m"," ","b","o","x">>,
    <<"l","a","r","g","e"," ","b","o","x">>,
    <<"s","m","a","l","l"," ","b","a","g">>,
    <<"m","e","d","i","u","m"," ","b","a","g">>,
    <<"l","a","r","g","e"," ","b","a","g">>,
    <<"b","i","g"," ","b","a","g">>,
    <<"t","h","e","r","m","o"," ","b","o","x">>,
    <<"t","r","a","y"," ","p","a","c","k">>,
    <<"f","a","m","i","l","y"," ","p","a","c","k">>
  }

(* ------------------------------ origin extractor ----------------------- *)

LOCAL_TOKEN ==
  <<"l","o","c","a","l">>

SAUDI ==
  <<"S","a","u","d","i">>

\* faulty variant: "Local" is returned as it is
extract_origin_KeepsLocal(name) ==
  With(lower(name), LAMBDA s :
    With(AltSearch(COUNTRIES, s), LAMBDA i :
      IF i = 0 THEN NoneStr
      ELSE title(SubSeq(s, i, i + AltMatchLen(COUNTRIES, s, i) - 1))))

extract_origin(name) ==
  With(lower(name), LAMBDA s :
    With(AltSearch(COUNTRIES, s), LAMBDA i :
      IF i = 0 THEN NoneStr
      ELSE With(title(SubSeq(s, i, i + AltMatchLen(COUNTRIES, s, i) - 1)), LAMBDA origin :
             IF lower(origin) = LOCAL_TOKEN THEN SAUDI ELSE origin)))

(* ------------------------------ unit extractor ------------------------- *)

ONE_PIECE ==
  <<"1"," ","p","i","e","c","e">>

\* last index of the run of digits that starts at i
DigitRunEnd(s, i) ==
  CHOOSE e \in i..Len(s) :
    /\ \A k \in i..e : IsDigit(s[k])
    /\ e = Len(s) \/ ~IsDigit(s[e+1])

\* first index at or after p that is not whitespace (Len(s)+1 when there is none)
SkipSpaces(s, p) ==
  CHOOSE q \in p..(Len(s) + 1) :
    /\ \A k \in p..(q-1) : IsSpace(s[k])
    /\ q = Len(s) + 1 \/ ~IsSpace(s[q])

\* \b(\d+(?:\.\d+)?)\s*(unit|...)\b tried at position i under re.IGNORECASE:
\* index of the last matched character, 0 when there is no match
UnitMatchEnd(s, i) ==
  IF ~(IsDigit(s[i]) /\ WordBoundary(s, i)) THEN 0
  ELSE With(DigitRunEnd(s, i), LAMBDA d :
       With(d + 2 <= Len(s) /\ s[d+1] = "." /\ IsDigit(s[d+2]), LAMBDA hasFrac :
       With(IF hasFrac THEN DigitRunEnd(s, d + 2) ELSE d, LAMBDA n :
       With(SkipSpaces(s, n + 1), LAMBDA q :
       With({u \in UNIT_KEYWORDS : /\ IMatchesAt(u, s, q)
                                   /\ WordBoundary(s, q + Len(u))}, LAMBDA cand :
         IF cand = {} THEN 0
         ELSE q + Len(CHOOSE u \in cand : \A v \in cand : Len(v) <= Len(u)) - 1)))))

\* faulty variant: the number+unit pattern is tried before the compound phrases
extract_unit_NumberFirst(name) ==
  With(lower(name), LAMBDA s :
  With(AltSearch(COMPOUND_UNITS, s), LAMBDA ci :
  With({i \in 1..Len(s) : UnitMatchEnd(s, i) > 0}, LAMBDA uh :
    IF uh # {}
    THEN With(CHOOSE i \in uh : \A j \in uh : i <= j, LAMBDA ui :
           strip(SubSeq(s, ui, UnitMatchEnd(s, ui))))
    ELSE IF ci > 0
         THEN strip(SubSeq(s, ci, ci + AltMatchLen(COMPOUND_UNITS, s, ci) - 1))
         ELSE ONE_PIECE)))

extract_unit(name) ==
  With(lower(name), LAMBDA s :
  With(AltSearch(COMPOUND_UNITS, s), LAMBDA ci :
    IF ci > 0 THEN strip(SubSeq(s, ci, ci + AltMatchLen(COMPOUND_UNITS, s, ci) - 1))
    ELSE With({i \in 1..Len(s) : UnitMatchEnd(s, i) > 0}, LAMBDA uh :
           IF uh # {}
           THEN With(CHOOSE i \in uh : \A j \in uh : i <= j, LAMBDA ui :
                  strip(SubSeq(s, ui, UnitMatchEnd(s, ui))))
           ELSE ONE_PIECE)))

(* ------------------------------ name cleaner --------------------------- *)

\* faulty variant: the descriptive words are matched without word boundaries
PatMatchLen_NoBoundary(mode, pat, s, i) ==
  IF mode = "origin"
  THEN IF /\ IMatchesAt(pat, s, i)
          /\ WordBoundary(s, i)
          /\ WordBoundary(s, i + Len(pat))
       THEN Len(pat) ELSE 0
  ELSE IF mode = "unit"
  THEN IF IMatchesAt(pat, s, i) THEN Len(pat) ELSE 0
  ELSE With({w \in DESCRIPTIVE_WORDS : IMatchesAt(w, s, i)}, LAMBDA cand :
         IF cand = {} THEN 0
         ELSE Len(CHOOSE w \in cand : \A v \in cand : Len(v) <= Len(w)))

\* length of the match, at position i of s, of
\*   "origin": \b<origin>\b        "unit": <unit>        "descriptive": \b(word|...)\b
\* (origin and unit escaped, taken literally), all under re.IGNORECASE; 0 when
\* there is no match
PatMatchLen(mode, pat, s, i) ==
  IF mode = "origin"
  THEN IF /\ IMatchesAt(pat, s, i)
          /\ WordBoundary(s, i)
          /\ WordBoundary(s, i + Len(pat))
       THEN Len(pat) ELSE 0
  ELSE IF mode = "unit"
  THEN IF IMatchesAt(pat, s, i) THEN Len(pat) ELSE 0
  ELSE AltMatchLen(DESCRIPTIVE_WORDS, s, i)

\* re.sub(pattern, '', s): every non-overlapping match removed, left to right
RECURSIVE RemoveMatches(_, _, _, _)
RemoveMatches(mode, pat, s, i) ==
  With({j \in i..Len(s) : PatMatchLen(mode, pat, s, j) > 0}, LAMBDA hits :
    IF hits = {} THEN SubSeq(s, i, Len(s))
    ELSE With(CHOOSE j \in hits : \A k \in hits : j <= k, LAMBDA j :
           SubSeq(s, i, j - 1)
             \o RemoveMatches(mode, pat, s, j + PatMatchLen(mode, pat, s, j))))

\* re.sub(r'\s+', ' ', s)
\* from position i on: every character that is no whitespace is kept and
\* every run of whitespace leaves one space
CollapseSpaces(s, i) ==
  With(SelectSeq([k \in 1..Len(s) |-> k] \o <<>>,
                 LAMBDA k : k >= i /\ (~IsSpace(s[k]) \/ k = i \/ ~IsSpace(s[k-1]))),
       LAMBDA kept :
         [j \in 1..Len(kept) |-> IF IsSpace(s[kept[j]]) THEN " " ELSE s[kept[j]]] \o <<>>)

\* faulty variant: the words are scanned from first to last
_extract_core_product_word_Forwards(name) ==
  With(split(name), LAMBDA words :
  With(UNIT_KEYWORDS \cup DESCRIPTIVE_WORDS \cup COUNTRIES, LAMBDA exclude :
  With({k \in 1..Len(words) :
          With(SelectSeq(lower(words[k]), IsWordChar), LAMBDA word_clean :
            Len(word_clean) > 2 /\ word_clean \notin exclude)}, LAMBDA good :
    IF good = {} THEN strip(name)
    ELSE words[CHOOSE k \in good : \A j \in good : j >= k])))

_extract_core_product_word(name) ==
  With(split(name), LAMBDA words :
  With(UNIT_KEYWORDS \cup DESCRIPTIVE_WORDS \cup COUNTRIES, LAMBDA exclude :
  With({k \in 1..Len(words) :
          With(SelectSeq(lower(words[k]), IsWordChar), LAMBDA word_clean :
            Len(word_clean) > 2 /\ word_clean \notin exclude)}, LAMBDA good :
    IF good = {} THEN strip(name)
    ELSE words[CHOOSE k \in good : \A j \in good : j <= k])))

\* re.sub(pattern, '', s, count=1): the leftmost match removed
RemoveFirstMatch(mode, pat, s, i) ==
  With({j \in i..Len(s) : PatMatchLen(mode, pat, s, j) > 0}, LAMBDA hits :
    IF hits = {} THEN SubSeq(s, i, Len(s))
    ELSE With(CHOOSE j \in hits : \A k \in hits : j <= k, LAMBDA j :
           SubSeq(s, i, j - 1)
             \o SubSeq(s, j + PatMatchLen(mode, pat, s, j), Len(s))))

\* faulty variant: only the first occurrence of the origin is removed
clean_product_name_FirstOriginOnly(name, origin, unit) ==
  With(IF origin # NoneStr /\ origin # <<>>
       THEN RemoveFirstMatch("origin", origin, name, 1) ELSE name, LAMBDA n1 :
  With(IF unit # NoneStr /\ unit # <<>> /\ unit # ONE_PIECE
       THEN RemoveMatches("unit", unit, n1, 1) ELSE n1, LAMBDA n2 :
  With(RemoveMatches("descriptive", <<>>, n2, 1), LAMBDA n3 :
  With(strip(With(n3, LAMBDA t : CollapseSpaces(t, 1))), LAMBDA n4 :
    IF Len(n4) < 2 THEN _extract_core_product_word(name) ELSE n4))))

\* n1: the origin removed; n2: the unit removed; n3: the descriptive words
\* removed; n4: whitespace collapsed and stripped
clean_product_name(name, origin, unit) ==
  With(IF origin # NoneStr /\ origin # <<>>
       THEN RemoveMatches("origin", origin, name, 1) ELSE name, LAMBDA n1 :
  With(IF unit # NoneStr /\ unit # <<>> /\ unit # ONE_PIECE
       THEN RemoveMatches("unit", unit, n1, 1) ELSE n1, LAMBDA n2 :
  With(RemoveMatches("descriptive", <<>>, n2, 1), LAMBDA n3 :
  With(strip(With(n3, LAMBDA t : CollapseSpaces(t, 1))), LAMBDA n4 :
    IF Len(n4) < 2 THEN _extract_core_product_word(name) ELSE n4))))

(* ------------------------------ price parser --------------------------- *)

\* the value float() reads a decimal digit as
DigitVal(c) ==
  CHOOSE v \in 0..9 :
    \/ <<"0","1","2","3","4","5","6","7","8","9">>[v + 1] = c
    \/ c \in NON_ASCII_DIGITS[v + 1]

\* value of a sequence of digits (0 for the empty sequence)
RECURSIVE DigitsValue(_)
DigitsValue(ds) ==
  IF ds = <<>> THEN 0
  ELSE 10 * DigitsValue(SubSeq(ds, 1, Len(ds) - 1)) + DigitVal(ds[Len(ds)])

\* <<m, d>> in lowest form: trailing zeros of the fraction dropped
RECURSIVE Normalise(_, _)
Normalise(m, d) ==
  IF d > 0 /\ m % 10 = 0 THEN Normalise(m \div 10, d - 1) ELSE <<m, d>>

ZERO_PRICE ==
  <<0, 0>>

\* faulty variant: the decimal comma is not replaced, so float() rejects it
_extract_price_NoComma(price_str) ==
  LET kept   == SelectSeq(price_str, LAMBDA c : IsDigit(c) \/ c = "." \/ c = ",")
      dots   == {i \in 1..Len(kept) : kept[i] = "."}
      commas == {i \in 1..Len(kept) : kept[i] = ","}
      digits == SelectSeq(kept, IsDigit)
  IN  IF commas # {} \/ Cardinality(dots) > 1 \/ digits = <<>> THEN ZERO_PRICE
      ELSE IF dots = {} THEN <<DigitsValue(digits), 0>>
      ELSE Normalise(DigitsValue(digits), Len(kept) - (CHOOSE i \in dots : TRUE))

\* float(text) for a text of digits and dots; ZERO_PRICE where float raises ValueError
_extract_price(price_str) ==
  LET kept   == SelectSeq(price_str, LAMBDA c : IsDigit(c) \/ c = "." \/ c = ",")
      clean  == [i \in 1..Len(kept) |-> IF kept[i] = "," THEN "." ELSE kept[i]] \o <<>>
      dots   == {i \in 1..Len(clean) : clean[i] = "."}
      digits == SelectSeq(clean, IsDigit)
  IN  IF Cardinality(dots) > 1 \/ digits = <<>> THEN ZERO_PRICE
      ELSE IF dots = {} THEN <<DigitsValue(digits), 0>>
      ELSE Normalise(DigitsValue(digits), Len(clean) - (CHOOSE i \in dots : TRUE))

(* ------------------------------ complexity heuristic ------------------- *)

SPECIAL_CHARS ==
  {"-", "/", "&", "(", ")"}

\* faulty variant: a name of five words counts as long
_is_complex_FromFiveWords(name) ==
  \/ Len(split(name)) >= 5
  \/ With(lower(name), LAMBDA s : \E keyword \in COMPLEXITY_KEYWORDS : Contains(keyword, s))
  \/ \E i \in 1..Len(name) : name[i] \in SPECIAL_CHARS
  \/ Len(name) > 50

_is_complex_product_name(name) ==
  \/ Len(split(name)) > 5
  \/ With(lower(name), LAMBDA s : \E keyword \in COMPLEXITY_KEYWORDS : Contains(keyword, s))
  \/ \E i \in 1..Len(name) : name[i] \in SPECIAL_CHARS
  \/ Len(name) > 50

(* ------------------------------ taxonomy ------------------------------- *)

\* the values of the enum, in declaration order
ProductCategory ==
  <<"Fruits", "Vegetables", "Herbs", "Grains", "Legumes", "Nuts", "Spices", "Dairy", "Meat", "Seafood", "Beverages", "Snacks", "Bakery", "Frozen", "Canned", "Other">>

get_category_keywords ==
  <<
    [category |-> "Fruits", keywords |-> <<
      <<"a","p","p","l","e">>, <<"b","a","n","a","n","a">>, <<"o","r","a","n","g","e">>,
      <<"g","r","a","p","e">>, <<"s","t","r","a","w","b","e","r","r","y">>,
      <<"b","l","u","e","b","e","r","r","y">>, <<"r","a","s","p","b","e","r","r","y">>,
      <<"c","h","e","r","r","y">>, <<"p","e","a","c","h">>, <<"p","e","a","r">>, <<"p","l","u","m">>,
      <<"m","a","n","g","o">>, <<"p","i","n","e","a","p","p","l","e">>,
      <<"w","a","t","e","r","m","e","l","o","n">>, <<"l","e","m","o","n">>, <<"l","i","m","e">>,
      <<"g","r","a","p","e","f","r","u","i","t">>, <<"p","o","m","e","g","r","a","n","a","t","e">>,
      <<"k","i","w","i">>, <<"p","a","p","a","y","a">>, <<"a","v","o","c","a","d","o">>, <<"f","i","g">>,
      <<"d","a","t","e">>, <<"c","o","c","o","n","u","t">>,
      <<"p","a","s","s","i","o","n"," ","f","r","u","i","t">>,
      <<"d","r","a","g","o","n"," ","f","r","u","i","t">>, <<"l","y","c","h","e","e">>,
      <<"t","a","m","a","r","i","n","d">>, <<"j","u","j","u","b","e">>, <<"l","o","q","u","a","t">>,
      <<"q","u","i","n","c","e">>, <<"m","e","d","l","a","r">>, <<"g","a","l","a">>, <<"f","u","j","i">>,
      <<"g","r","a","n","n","y"," ","s","m","i","t","h">>, <<"h","o","n","e","y","c","r","i","s","p">>,
      <<"r","e","d"," ","d","e","l","i","c","i","o","u","s">>,
      <<"g","o","l","d","e","n"," ","d","e","l","i","c","i","o","u","s">>,
      <<"p","i","n","k"," ","l","a","d","y">>, <<"b","r","a","e","b","u","r","n">>,
      <<"j","o","n","a","g","o","l","d">>, <<"e","m","p","i","r","e">>, <<"c","o","r","t","l","a","n","d">>,
      <<"m","a","c","i","n","t","o","s","h">>, <<"v","a","l","e","n","c","i","a">>, <<"n","a","v","e","l">>,
      <<"b","l","o","o","d"," ","o","r","a","n","g","e">>, <<"m","a","n","d","a","r","i","n">>,
      <<"c","l","e","m","e","n","t","i","n","e">>, <<"t","a","n","g","e","r","i","n","e">>
    >>],
    [category |-> "Vegetables", keywords |-> <<
      <<"t","o","m","a","t","o">>, <<"p","o","t","a","t","o">>, <<"c","a","r","r","o","t">>,
      <<"o","n","i","o","n">>, <<"g","a","r","l","i","c">>, <<"p","e","p","p","e","r">>,
      <<"c","u","c","u","m","b","e","r">>, <<"l","e","t","t","u","c","e">>, <<"s","p","i","n","a","c","h">>,
      <<"k","a","l","e">>, <<"c","a","b","b","a","g","e">>, <<"b","r","o","c","c","o","l","i">>,
      <<"c","a","u","l","i","f","l","o","w","e","r">>, <<"a","s","p","a","r","a","g","u","s">>,
      <<"c","e","l","e","r","y">>, <<"r","a","d","i","s","h">>, <<"b","e","e","t">>,
      <<"t","u","r","n","i","p">>, <<"l","e","e","k">>, <<"s","c","a","l","l","i","o","n">>,
      <<"g","i","n","g","e","r">>, <<"t","u","r","m","e","r","i","c">>, <<"s","q","u","a","s","h">>,
      <<"p","u","m","p","k","i","n">>, <<"e","g","g","p","l","a","n","t">>, <<"c","o","r","n">>,
      <<"g","r","e","e","n"," ","b","e","a","n">>, <<"s","n","a","p"," ","b","e","a","n">>,
      <<"p","e","a","s">>, <<"a","r","t","i","c","h","o","k","e">>, <<"o","k","r","a">>,
      <<"j","i","c","a","m","a">>, <<"b","r","u","s","s","e","l","s"," ","s","p","r","o","u","t","s">>,
      <<"k","o","h","l","r","a","b","i">>, <<"d","a","i","k","o","n">>,
      <<"h","o","r","s","e","r","a","d","i","s","h">>, <<"w","a","s","a","b","i">>,
      <<"b","a","m","b","o","o"," ","s","h","o","o","t","s">>,
      <<"w","a","t","e","r"," ","c","h","e","s","t","n","u","t">>
    >>],
    [category |-> "Herbs", keywords |-> <<
      <<"b","a","s","i","l">>, <<"o","r","e","g","a","n","o">>, <<"t","h","y","m","e">>,
      <<"r","o","s","e","m","a","r","y">>, <<"s","a","g","e">>, <<"p","a","r","s","l","e","y">>,
      <<"c","i","l","a","n","t","r","o">>, <<"d","i","l","l">>, <<"m","i","n","t">>,
      <<"c","h","i","v","e","s">>, <<"t","a","r","r","a","g","o","n">>, <<"m","a","r","j","o","r","a","m">>,
      <<"b","a","y"," ","l","e","a","v","e","s">>, <<"c","u","r","r","y"," ","l","e","a","v","e","s">>,
      <<"l","e","m","o","n","g","r","a","s","s">>, <<"l","a","v","e","n","d","e","r">>,
      <<"c","h","a","m","o","m","i","l","e">>, <<"f","e","n","n","e","l"," ","s","e","e","d","s">>,
      <<"c","a","r","a","w","a","y">>, <<"a","n","i","s","e">>, <<"c","h","e","r","v","i","l">>,
      <<"b","o","r","a","g","e">>, <<"s","o","r","r","e","l">>, <<"w","a","t","e","r","c","r","e","s","s">>,
      <<"a","r","u","g","u","l","a">>, <<"m","i","z","u","n","a">>, <<"t","a","t","s","o","i">>,
      <<"m","i","t","s","u","b","a">>, <<"s","h","i","s","o">>, <<"p","e","r","i","l","l","a">>
    >>],
    [category |-> "Grains", keywords |-> <<
      <<"r","i","c","e">>, <<"w","h","e","a","t">>, <<"b","a","r","l","e","y">>, <<"o","a","t","s">>,
      <<"q","u","i","n","o","a">>, <<"b","u","c","k","w","h","e","a","t">>, <<"m","i","l","l","e","t">>,
      <<"r","y","e">>, <<"c","o","r","n">>, <<"s","o","r","g","h","u","m">>,
      <<"a","m","a","r","a","n","t","h">>, <<"t","e","f","f">>, <<"b","u","l","g","u","r">>,
      <<"c","o","u","s","c","o","u","s">>, <<"f","a","r","r","o">>, <<"s","p","e","l","t">>,
      <<"k","a","m","u","t">>, <<"f","r","e","e","k","e","h">>, <<"w","i","l","d"," ","r","i","c","e">>,
      <<"b","r","o","w","n"," ","r","i","c","e">>, <<"w","h","i","t","e"," ","r","i","c","e">>,
      <<"j","a","s","m","i","n","e"," ","r","i","c","e">>,
      <<"b","a","s","m","a","t","i"," ","r","i","c","e">>, <<"a","r","b","o","r","i","o"," ","r","i","c","e">>
    >>],
    [category |-> "Legumes", keywords |-> <<
      <<"b","e","a","n","s">>, <<"l","e","n","t","i","l","s">>, <<"c","h","i","c","k","p","e","a","s">>,
      <<"p","e","a","s">>, <<"s","o","y","b","e","a","n","s">>,
      <<"b","l","a","c","k"," ","b","e","a","n","s">>, <<"k","i","d","n","e","y"," ","b","e","a","n","s">>,
      <<"p","i","n","t","o"," ","b","e","a","n","s">>, <<"n","a","v","y"," ","b","e","a","n","s">>,
      <<"l","i","m","a"," ","b","e","a","n","s">>, <<"f","a","v","a"," ","b","e","a","n","s">>,
      <<"s","p","l","i","t"," ","p","e","a","s">>,
      <<"b","l","a","c","k","-","e","y","e","d"," ","p","e","a","s">>,
      <<"a","d","z","u","k","i"," ","b","e","a","n","s">>, <<"m","u","n","g"," ","b","e","a","n","s">>,
      <<"c","a","n","n","e","l","l","i","n","i"," ","b","e","a","n","s">>,
      <<"g","a","r","b","a","n","z","o"," ","b","e","a","n","s">>,
      <<"r","e","d"," ","l","e","n","t","i","l","s">>,
      <<"g","r","e","e","n"," ","l","e","n","t","i","l","s">>,
      <<"b","r","o","w","n"," ","l","e","n","t","i","l","s">>,
      <<"y","e","l","l","o","w"," ","l","e","n","t","i","l","s">>,
      <<"b","l","a","c","k"," ","l","e","n","t","i","l","s">>,
      <<"b","e","l","u","g","a"," ","l","e","n","t","i","l","s">>
    >>],
    [category |-> "Nuts", keywords |-> <<
      <<"a","l","m","o","n","d","s">>, <<"w","a","l","n","u","t","s">>, <<"p","e","c","a","n","s">>,
      <<"c","a","s","h","e","w","s">>, <<"p","i","s","t","a","c","h","i","o","s">>,
      <<"h","a","z","e","l","n","u","t","s">>, <<"m","a","c","a","d","a","m","i","a">>,
      <<"b","r","a","z","i","l"," ","n","u","t","s">>, <<"p","i","n","e"," ","n","u","t","s">>,
      <<"p","u","m","p","k","i","n"," ","s","e","e","d","s">>,
      <<"s","u","n","f","l","o","w","e","r"," ","s","e","e","d","s">>,
      <<"s","e","s","a","m","e"," ","s","e","e","d","s">>, <<"c","h","i","a"," ","s","e","e","d","s">>,
      <<"f","l","a","x"," ","s","e","e","d","s">>, <<"h","e","m","p"," ","s","e","e","d","s">>,
      <<"p","e","a","n","u","t","s">>, <<"c","h","e","s","t","n","u","t","s">>, <<"a","c","o","r","n","s">>,
      <<"p","i","l","i"," ","n","u","t","s">>, <<"k","u","k","u","i"," ","n","u","t","s">>,
      <<"c","a","n","d","l","e","n","u","t","s">>
    >>],
    [category |-> "Spices", keywords |-> <<
      <<"p","e","p","p","e","r">>, <<"s","a","l","t">>, <<"c","i","n","n","a","m","o","n">>,
      <<"n","u","t","m","e","g">>, <<"c","l","o","v","e","s">>, <<"c","a","r","d","a","m","o","m">>,
      <<"v","a","n","i","l","l","a">>, <<"g","i","n","g","e","r">>, <<"t","u","r","m","e","r","i","c">>,
      <<"c","u","m","i","n">>, <<"c","o","r","i","a","n","d","e","r">>, <<"p","a","p","r","i","k","a">>,
      <<"c","a","y","e","n","n","e">>, <<"c","h","i","l","i"," ","p","o","w","d","e","r">>,
      <<"g","a","r","l","i","c"," ","p","o","w","d","e","r">>,
      <<"o","n","i","o","n"," ","p","o","w","d","e","r">>, <<"a","l","l","s","p","i","c","e">>,
      <<"j","u","n","i","p","e","r"," ","b","e","r","r","i","e","s">>, <<"s","a","f","f","r","o","n">>,
      <<"s","u","m","a","c">>, <<"z","a","a","t","a","r">>, <<"h","a","r","i","s","s","a">>,
      <<"b","e","r","b","e","r","e">>, <<"r","a","s"," ","e","l"," ","h","a","n","o","u","t">>,
      <<"g","a","r","a","m"," ","m","a","s","a","l","a">>, <<"c","u","r","r","y"," ","p","o","w","d","e","r">>
    >>],
    [category |-> "Dairy", keywords |-> <<
      <<"m","i","l","k">>, <<"c","h","e","e","s","e">>, <<"y","o","g","u","r","t">>,
      <<"b","u","t","t","e","r">>, <<"c","r","e","a","m">>, <<"s","o","u","r"," ","c","r","e","a","m">>,
      <<"b","u","t","t","e","r","m","i","l","k">>, <<"k","e","f","i","r">>,
      <<"c","o","t","t","a","g","e"," ","c","h","e","e","s","e">>, <<"r","i","c","o","t","t","a">>,
      <<"m","o","z","z","a","r","e","l","l","a">>, <<"c","h","e","d","d","a","r">>, <<"s","w","i","s","s">>,
      <<"p","a","r","m","e","s","a","n">>, <<"f","e","t","a">>,
      <<"g","o","a","t"," ","c","h","e","e","s","e">>, <<"c","r","e","a","m"," ","c","h","e","e","s","e">>,
      <<"m","a","s","c","a","r","p","o","n","e">>, <<"g","o","u","d","a">>, <<"b","r","i","e">>,
      <<"c","a","m","e","m","b","e","r","t">>, <<"b","l","u","e"," ","c","h","e","e","s","e">>
    >>],
    [category |-> "Meat", keywords |-> <<
      <<"b","e","e","f">>, <<"p","o","r","k">>, <<"l","a","m","b">>, <<"c","h","i","c","k","e","n">>,
      <<"t","u","r","k","e","y">>, <<"d","u","c","k">>, <<"v","e","a","l">>, <<"b","a","c","o","n">>,
      <<"h","a","m">>, <<"s","a","u","s","a","g","e">>, <<"c","h","o","r","i","z","o">>,
      <<"s","a","l","a","m","i">>, <<"p","e","p","p","e","r","o","n","i">>,
      <<"p","r","o","s","c","i","u","t","t","o">>, <<"p","a","n","c","e","t","t","a">>,
      <<"g","u","a","n","c","i","a","l","e">>, <<"l","i","v","e","r">>, <<"k","i","d","n","e","y">>,
      <<"h","e","a","r","t">>, <<"t","o","n","g","u","e">>, <<"o","x","t","a","i","l">>, <<"r","i","b","s">>,
      <<"c","h","o","p","s">>, <<"s","t","e","a","k">>, <<"r","o","a","s","t">>
    >>],
    [category |-> "Seafood", keywords |-> <<
      <<"f","i","s","h">>, <<"s","a","l","m","o","n">>, <<"t","u","n","a">>, <<"c","o","d">>,
      <<"h","a","l","i","b","u","t">>, <<"b","a","s","s">>, <<"t","r","o","u","t">>,
      <<"m","a","c","k","e","r","e","l">>, <<"s","a","r","d","i","n","e","s">>,
      <<"a","n","c","h","o","v","i","e","s">>, <<"s","h","r","i","m","p">>, <<"p","r","a","w","n","s">>,
      <<"l","o","b","s","t","e","r">>, <<"c","r","a","b">>, <<"s","c","a","l","l","o","p","s">>,
      <<"m","u","s","s","e","l","s">>, <<"c","l","a","m","s">>, <<"o","y","s","t","e","r","s">>,
      <<"s","q","u","i","d">>, <<"o","c","t","o","p","u","s">>, <<"c","u","t","t","l","e","f","i","s","h">>,
      <<"e","e","l">>, <<"c","a","v","i","a","r">>, <<"r","o","e">>, <<"s","e","a","w","e","e","d">>,
      <<"n","o","r","i">>
    >>],
    [category |-> "Beverages", keywords |-> <<
      <<"j","u","i","c","e">>, <<"s","o","d","a">>, <<"w","a","t","e","r">>, <<"t","e","a">>,
      <<"c","o","f","f","e","e">>, <<"m","i","l","k">>, <<"s","m","o","o","t","h","i","e">>,
      <<"s","h","a","k","e">>, <<"w","i","n","e">>, <<"b","e","e","r">>, <<"l","e","m","o","n","a","d","e">>,
      <<"i","c","e","d"," ","t","e","a">>, <<"e","n","e","r","g","y"," ","d","r","i","n","k">>,
      <<"s","p","o","r","t","s"," ","d","r","i","n","k">>,
      <<"c","o","c","o","n","u","t"," ","w","a","t","e","r">>, <<"k","o","m","b","u","c","h","a">>
    >>],
    [category |-> "Snacks", keywords |-> <<
      <<"c","h","i","p","s">>, <<"c","r","a","c","k","e","r","s">>, <<"n","u","t","s">>,
      <<"p","o","p","c","o","r","n">>, <<"p","r","e","t","z","e","l","s">>,
      <<"t","r","a","i","l"," ","m","i","x">>, <<"g","r","a","n","o","l","a">>,
      <<"c","o","o","k","i","e","s">>, <<"b","i","s","c","u","i","t","s">>, <<"c","a","n","d","y">>,
      <<"c","h","o","c","o","l","a","t","e">>, <<"g","u","m","m","i","e","s">>, <<"j","e","r","k","y">>,
      <<"d","r","i","e","d"," ","f","r","u","i","t">>
    >>],
    [category |-> "Bakery", keywords |-> <<
      <<"b","r","e","a","d">>, <<"r","o","l","l","s">>, <<"b","a","g","e","l","s">>,
      <<"c","r","o","i","s","s","a","n","t","s">>, <<"m","u","f","f","i","n","s">>,
      <<"s","c","o","n","e","s">>, <<"c","a","k","e","s">>, <<"p","i","e","s">>, <<"t","a","r","t","s">>,
      <<"p","a","s","t","r","i","e","s">>, <<"d","o","n","u","t","s">>, <<"c","o","o","k","i","e","s">>,
      <<"b","i","s","c","u","i","t","s">>, <<"c","r","a","c","k","e","r","s">>
    >>],
    [category |-> "Frozen", keywords |-> <<
      <<"f","r","o","z","e","n"," ","v","e","g","e","t","a","b","l","e","s">>,
      <<"f","r","o","z","e","n"," ","f","r","u","i","t","s">>,
      <<"f","r","o","z","e","n"," ","m","e","a","l","s">>, <<"i","c","e"," ","c","r","e","a","m">>,
      <<"f","r","o","z","e","n"," ","y","o","g","u","r","t">>,
      <<"f","r","o","z","e","n"," ","p","i","z","z","a">>,
      <<"f","r","o","z","e","n"," ","b","u","r","r","i","t","o","s">>,
      <<"f","r","o","z","e","n"," ","w","a","f","f","l","e","s">>,
      <<"f","r","o","z","e","n"," ","b","e","r","r","i","e","s">>
    >>],
    [category |-> "Canned", keywords |-> <<
      <<"c","a","n","n","e","d"," ","v","e","g","e","t","a","b","l","e","s">>,
      <<"c","a","n","n","e","d"," ","f","r","u","i","t","s">>,
      <<"c","a","n","n","e","d"," ","b","e","a","n","s">>,
      <<"c","a","n","n","e","d"," ","t","o","m","a","t","o","e","s">>,
      <<"c","a","n","n","e","d"," ","s","o","u","p">>, <<"c","a","n","n","e","d"," ","f","i","s","h">>,
      <<"c","a","n","n","e","d"," ","m","e","a","t">>, <<"p","r","e","s","e","r","v","e","s">>,
      <<"j","a","m","s">>, <<"j","e","l","l","i","e","s">>
    >>]
  >>

CategoryValues ==
  {ProductCategory[i] : i \in 1..Len(ProductCategory)}

(* ------------------------------ rule-based classifier ------------------ *)

ClassificationResult(category, confidence, method) ==
  [category |-> category, confidence |-> confidence, method |-> method]

\* faulty variant: the position bonus is given at the end of the name
KeywordWeight_EndBonus(keyword, product_lower) ==
  IF ~Contains(keyword, product_lower) THEN 0
  ELSE LET base  == Len(keyword) * 2
           exact == IF Contains(<<" ">> \o keyword \o <<" ">>,
                                <<" ">> \o product_lower \o <<" ">>)
                    THEN base * 2 ELSE base
       IN  IF /\ Len(product_lower) > Len(keyword)
              /\ MatchesAt(<<" ">> \o keyword, product_lower,
                           Len(product_lower) - Len(keyword))
           THEN (exact * 3) \div 2 ELSE exact

\* faulty variant: the start bonus does not ask for the space after the keyword
KeywordWeight_PrefixBonus(keyword, product_lower) ==
  IF ~Contains(keyword, product_lower) THEN 0
  ELSE LET base  == Len(keyword) * 2
           exact == IF Contains(<<" ">> \o keyword \o <<" ">>,
                                <<" ">> \o product_lower \o <<" ">>)
                    THEN base * 2 ELSE base
       IN  IF StartsWith(product_lower, keyword)
           THEN (exact * 3) \div 2 ELSE exact

\* the weight one keyword adds to its category's score (lines 48-55); the
\* weight is even before the 1.5 bonus, so the product is a whole number
\* faulty variant: the base weight is the length of the keyword, not twice the length
KeywordWeight_SingleWeight(keyword, product_lower) ==
  IF ~Contains(keyword, product_lower) THEN 0
  ELSE LET base  == Len(keyword)
           exact == IF Contains(<<" ">> \o keyword \o <<" ">>,
                                <<" ">> \o product_lower \o <<" ">>)
                    THEN base * 2 ELSE base
       IN  IF StartsWith(product_lower, keyword \o <<" ">>)
           THEN (exact * 3) \div 2 ELSE exact

KeywordWeight(keyword, product_lower) ==
  IF ~Contains(keyword, product_lower) THEN 0
  ELSE LET base  == Len(keyword) * 2
           exact == IF Contains(<<" ">> \o keyword \o <<" ">>,
                                <<" ">> \o product_lower \o <<" ">>)
                    THEN base * 2 ELSE base
       IN  IF StartsWith(product_lower, keyword \o <<" ">>)
           THEN (exact * 3) \div 2 ELSE exact

RECURSIVE SumWeights(_, _, _)
SumWeights(keywords, product_lower, k) ==
  IF k > Len(keywords) THEN 0
  ELSE KeywordWeight(keywords[k], product_lower)
         + SumWeights(keywords, product_lower, k + 1)

\* category_scores, indexed by the position of the category in the keyword table
category_scores(product_name) ==
  With(strip(lower(product_name)), LAMBDA product_lower :
    [c \in 1..Len(get_category_keywords) |->
       SumWeights(get_category_keywords[c].keywords, product_lower, 1)] \o <<>>)

\* faulty variant: the 0.95 band starts above 30
ConfidenceOf_Above30(best_score) ==
  IF best_score > 30 THEN 95
  ELSE IF best_score >= 20 THEN 85
  ELSE IF best_score >= 10 THEN 70
  ELSE IF best_score >= 5 THEN 50
  ELSE 30

\* faulty variant: the thresholds are exclusive
ConfidenceOf_Strict(best_score) ==
  IF best_score > 30 THEN 95
  ELSE IF best_score > 20 THEN 85
  ELSE IF best_score > 10 THEN 70
  ELSE IF best_score > 5 THEN 50
  ELSE 30

ConfidenceOf(best_score) ==
  IF best_score >= 30 THEN 95
  ELSE IF best_score >= 20 THEN 85
  ELSE IF best_score >= 10 THEN 70
  ELSE IF best_score >= 5 THEN 50
  ELSE 30

\* faulty variant: among equal maxima the last category wins
RuleBasedClassify_LastWins(product_name) ==
  LET scores == category_scores(product_name)
      idx    == DOMAIN scores
      top    == CHOOSE c \in idx : \A d \in idx : scores[d] <= scores[c]
      best   == CHOOSE c \in idx :
                  /\ scores[c] = scores[top]
                  /\ \A d \in idx : scores[d] = scores[top] => c >= d
  IN  IF scores[top] = 0
      THEN ClassificationResult("Other", 0, "rule_based")
      ELSE ClassificationResult(get_category_keywords[best].category,
                                ConfidenceOf(scores[best]), "rule_based")

RuleBasedClassify(product_name) ==
  LET scores == category_scores(product_name)
      idx    == DOMAIN scores
      top    == CHOOSE c \in idx : \A d \in idx : scores[d] <= scores[c]
      best   == CHOOSE c \in idx :
                  /\ scores[c] = scores[top]
                  /\ \A d \in idx : scores[d] = scores[top] => c <= d
  IN  IF scores[top] = 0
      THEN ClassificationResult("Other", 0, "rule_based")
      ELSE ClassificationResult(get_category_keywords[best].category,
                                ConfidenceOf(scores[best]), "rule_based")

(* ------------------------------ hybrid classifier ---------------------- *)

\* an LLM call either raises or returns a text (classification) or a record
\* (extraction, after the output parser)
LLMFails ==
  [kind |-> "raise"]

\* no call was made
NoOutcome ==
  [kind |-> "none"]

LLMText(content) ==
  [kind |-> "ok", content |-> content]

\* faulty variant: the returned label is passed on without the enum lookup
_classify_with_llm_Unchecked(content) ==
  ClassificationResult(Str(strip(content)), 90, "llm")

\* faulty variant: an unknown label gives Other with the confidence of a known one
_classify_with_llm_OtherHigh(content) ==
  IF Str(strip(content)) \in CategoryValues
  THEN ClassificationResult(Str(strip(content)), 90, "llm")
  ELSE ClassificationResult("Other", 90, "llm")

\* _classify_with_llm once the call has returned the text content
_classify_with_llm(content) ==
  LET category_name == Str(strip(content))
  IN  IF category_name \in CategoryValues
      THEN ClassificationResult(category_name, 90, "llm")
      ELSE ClassificationResult("Other", 50, "llm")

\* faulty variant: the availability flag is not consulted
ClassifierCallsLLM_IgnoresFlag(rule_result, llm_available) ==
  /\ ~(rule_result.confidence > 85)
  /\ rule_result.confidence <= 85

\* faulty variant: the boundary 0.85 counts as high confidence
ClassifierCallsLLM_Below(rule_result, llm_available) ==
  /\ ~(rule_result.confidence >= 85)
  /\ llm_available
  /\ rule_result.confidence < 85

\* whether classify_product reaches the LLM call (lines 125 and 133)
ClassifierCallsLLM(rule_result, llm_available) ==
  /\ ~(rule_result.confidence > 85)
  /\ llm_available
  /\ rule_result.confidence <= 85

\* faulty variant: a failed or skipped LLM call gives the default result instead of
\* the rule-based one
ClassifyFrom_DefaultOnFailure(rule_result, llm_available, outcome) ==
  IF rule_result.confidence > 85
  THEN ClassificationResult(rule_result.category, rule_result.confidence, "rule_based")
  ELSE IF ClassifierCallsLLM(rule_result, llm_available) /\ outcome.kind = "ok"
       THEN _classify_with_llm(outcome.content)
       ELSE ClassificationResult("Other", 0, "rule_based")

\* lines 124-149 of classify_product: the result, given the rule-based result
\* and the outcome the LLM call has if it is made
ClassifyFrom(rule_result, llm_available, outcome) ==
  LET fallback == ClassificationResult(rule_result.category,
                                       rule_result.confidence, "rule_based")
  IN  IF rule_result.confidence > 85 THEN fallback
      ELSE IF ClassifierCallsLLM(rule_result, llm_available) /\ outcome.kind = "ok"
           THEN LET llm_result == _classify_with_llm(outcome.content)
                IN  ClassificationResult(llm_result.category,
                                         llm_result.confidence, "llm")
           ELSE fallback

\* HybridProductClassifier.classify_product
classify_product(product_name, llm_available, outcome) ==
  ClassifyFrom(RuleBasedClassify(product_name), llm_available, outcome)

(* ------------------------------ Product records ------------------------ *)

\* models.product.Product
Product(Original_name, ProductName, Unit, Origin, Brand, Price, Currency, Source, Category, Confidence, ClassificationMethod) ==
  [Original_name |-> Original_name, ProductName |-> ProductName, Unit |-> Unit,
   Origin |-> Origin, Brand |-> Brand, Price |-> Price, Currency |-> Currency,
   Source |-> Source, Category |-> Category, Confidence |-> Confidence,
   ClassificationMethod |-> ClassificationMethod]

\* the fields the extraction stage fills (everything but the classification)
ExtractedFields(p) ==
  <<p.Original_name, p.ProductName, p.Unit, p.Origin, p.Brand, p.Price,
    p.Currency, p.Source>>

(* ------------------------------ raw input records ----------------------- *)

\* a key that the mapping does not have
ABSENT ==
  <<"<absent>">>

\* dict.get(key, default)
Get(raw, key, default) ==
  IF raw[key] = ABSENT THEN default ELSE raw[key]

\* str(value) of a value that is a text or None
PyStr(v) ==
  IF v = NoneStr THEN <<"N","o","n","e">> ELSE v

RawDict(name, price, source) ==
  [kind |-> "dict", name |-> name, price |-> price, source |-> source]

\* a list element that is not a mapping (it has no .get)
NotADict ==
  [kind |-> "other", name |-> ABSENT, price |-> ABSENT, source |-> ABSENT]

\* the records a batch is made of: a simple name at the 0.85 boundary, a
\* complex name of high rule confidence, a complex name of low rule
\* confidence, the record of the end-to-end scenario, a mapping whose price and
\* source are None, a mapping whose name is None, and an element that is no
\* mapping
RawItems ==
  { RawDict(<<"a","p","p","l","e">>, <<"3",".","5","0">>, <<"S","u","p","p","l","i","e","r","A">>),
    RawDict(<<"C","u","c","u","m","b","e","r"," ","1","k","g"," ","(","E","g","y","p","t",")">>, <<"1","2",",","0","0">>, <<"S","u","p","p","l","i","e","r","B">>),
    RawDict(<<"F","r","e","s","h"," ","L","o","c","a","l"," ","F","i","g","s"," ","5","0","0","g">>, <<"S","A","R"," ","7">>, <<"S","u","p","p","l","i","e","r","A">>),
    RawDict(<<"F","a","r","m"," ","F","r","e","s","h"," ","B","u","n","c","h"," ","T","o","m","a","t","o"," ","5","0","0","g">>,
            <<"3",".","5","0">>, <<"S","u","p","p","l","i","e","r","A">>),
    RawDict(<<"m","i","l","k">>, NoneStr, NoneStr),
    RawDict(NoneStr, <<"1">>, <<"S","u","p","p","l","i","e","r","B">>),
    NotADict }

\* the records the complexity judgement is tried on: those of a batch, and
\* names on either side of the two thresholds that hold no complexity keyword
\* and none of - / & ( ): five words and six words, 50 characters and 51
\* characters (in five words)
RoutingItems ==
  RawItems \cup
  { RawDict(<<"r","e","d"," ","a","p","p","l","e"," ","f","r","o","m"," ","t","h","e"," ","b","o","x">>,
            <<"1">>, <<"S","u","p","p","l","i","e","r","A">>),
    RawDict(<<"r","e","d"," ","a","p","p","l","e"," ","f","r","o","m"," ","t","h","e"," ","b","i","g"," ","b","o","x">>,
            <<"1">>, <<"S","u","p","p","l","i","e","r","A">>),
    RawDict(<<"S","t","r","a","w","b","e","r","r","y"," ","B","l","u","e","b","e","r","r","y"," ","R","a","s","p","b","e","r","r","y"," ","B","l","a","c","k","b","e","r","r","y"," ","M","u","l","b","e","r","r","y">>,
            <<"1">>, <<"S","u","p","p","l","i","e","r","A">>),
    RawDict(<<"S","t","r","a","w","b","e","r","r","y"," ","B","l","u","e","b","e","r","r","y"," ","R","a","s","p","b","e","r","r","y"," ","B","l","a","c","k","b","e","r","r","y"," ","C","r","a","n","b","e","r","r","y">>,
            <<"1">>, <<"S","u","p","p","l","i","e","r","A">>) }

\* every list of at most n raw items
RECURSIVE Batches(_)
Batches(n) ==
  IF n = 0 THEN {<<>>}
  ELSE Batches(n - 1) \cup
       {Append(b, r) : b \in {c \in Batches(n - 1) : Len(c) = n - 1}, r \in RawItems}

(* ------------------------------ regex engine ---------------------------- *)

\* whether _extract_with_regex raises: name.lower() on a name that is not a
\* text, or the validation of Product on a source that is not a text
RegexRaises(raw) ==
  \/ Get(raw, "name", <<>>) = NoneStr
  \/ Get(raw, "source", <<>>) = NoneStr

_extract_with_regex(raw) ==
  LET name   == Get(raw, "name", <<>>)
      price  == _extract_price(PyStr(Get(raw, "price", <<"0">>)))
      source == Get(raw, "source", <<>>)
  IN  With(extract_origin(name), LAMBDA origin :
      With(extract_unit(name), LAMBDA unit :
        Product(name, clean_product_name(name, origin, unit), unit, origin, NoneStr,
                price, "SAR", source, NoneLabel, NoneNum, NoneLabel)))

(* ------------------------------ the LLM --------------------------------- *)

LLMRecord(product) ==
  [kind |-> "ok", content |-> product]

\* what the extraction call can do: raise (call error, unparseable or
\* schema-invalid completion), or return a schema-valid Product, here one that
\* follows the prompt and one that does not (other name, unknown category)
ExtractionOutcomes(raw) ==
  { LLMFails,
    LLMRecord(Product(PyStr(Get(raw, "name", <<>>)), <<"C","u","c","u","m","b","e","r">>, <<"1"," ","k","g">>,
                      <<"E","g","y","p","t">>, NoneStr, <<125, 1>>, "SAR",
                      PyStr(Get(raw, "source", <<>>)), NoneLabel, NoneNum, NoneLabel)),
    LLMRecord(Product(<<"i","t","e","m">>, <<"M","y","s","t","e","r","y"," ","I","t","e","m">>, <<>>,
                      NoneStr, <<"A","c","m","e">>, <<-5, 0>>, "USD",
                      <<"l","l","m">>, "Groceries", 99, "guess")) }

\* what the classification call can do: raise, return a taxonomy label
\* (padded with whitespace), or return a text that is no taxonomy label
ClassificationOutcomes ==
  { LLMFails,
    LLMText(<<" ","D","a","i","r","y">> \o <<"\n">>),
    LLMText(<<"d","a","i","r","y"," ","p","r","o","d","u","c","t","s">>) }

\* lines 146-154 of extract_product_data: which engines run, whether the LLM
\* is called, and the record produced, or that an exception leaves the method
NoProduct ==
  Product(<<>>, <<>>, <<>>, NoneStr, NoneStr, ZERO_PRICE, "", <<>>,
          NoneLabel, NoneNum, NoneLabel)

\* the outcome of one extraction stage: idx, raw and outcome are filled in by
\* the loop (ExtractRecord)
StageResult(called, path, raised, product) ==
  [idx |-> 0, raw |-> NotADict, called |-> called,
   outcome |-> IF called THEN "called" ELSE "none",
   path |-> path, raised |-> raised, product |-> product]

\* faulty variant: the fallback after a failed LLM call hands the regex engine the
\* name only
RegexStage_NameOnly(raw, path, called) ==
  IF RegexRaises(raw)
  THEN StageResult(called, path, TRUE, NoProduct)
  ELSE StageResult(called, path, FALSE,
                   _extract_with_regex(IF called
                                       THEN RawDict(raw.name, ABSENT, ABSENT)
                                       ELSE raw))

RegexStage(raw, path, called) ==
  IF RegexRaises(raw)
  THEN StageResult(called, path, TRUE, NoProduct)
  ELSE StageResult(called, path, FALSE, _extract_with_regex(raw))

\* whether extract_product_data takes the LLM branch (line 149); the name
\* is a text here
ExtractorCallsLLM(name, llm_available) ==
  llm_available /\ _is_complex_product_name(name)

ExtractStage(raw, llm_available, outcome) ==
  LET name == Get(raw, "name", <<>>)
  IN  IF llm_available /\ name = NoneStr
      THEN \* name.split() raises in _is_complex_product_name
           StageResult(FALSE, <<>>, TRUE, NoProduct)
      ELSE IF name # NoneStr /\ ExtractorCallsLLM(name, llm_available)
      THEN IF outcome.kind = "ok"
           THEN StageResult(TRUE, <<"llm">>, FALSE, outcome.content)
           ELSE RegexStage(raw, <<"llm", "regex">>, TRUE)
      ELSE RegexStage(raw, <<"regex">>, FALSE)

\* faulty variant: the method is not copied to the record
WithClassification_NoMethod(product, result) ==
  [product EXCEPT !.Category = result.category,
                  !.Confidence = result.confidence]

\* lines 156-162 of extract_product_data
WithClassification(product, result) ==
  [product EXCEPT !.Category = result.category,
                  !.Confidence = result.confidence,
                  !.ClassificationMethod = result.method]

(* ------------------------------ the batch run --------------------------- *)

\* the states the daily data file can be in:
\*   missing       no file at the path
\*   unreadable    the path exists and open() fails (a directory, no permission)
\*   undecodable   the bytes are not UTF-8: the read inside json.load raises
\*                 UnicodeDecodeError, which is no JSONDecodeError
\*   too_deep      JSON nested deeper than the interpreter's recursion limit
\*                 allows (about 1000 levels), anywhere in the document:
\*                 json.load raises RecursionError
\*   huge_number   JSON holding an integer of more digits than int() converts
\*                 (4300): json.load raises a ValueError that is no
\*                 JSONDecodeError
\*   invalid_json  the content is not JSON (an empty file included)
\*   scalar_json   a JSON number, true, false or null
\*   no_data_key   an object, list or string in which 'data' is not found
\*   data_element  a list holding "data" or a string holding data: 'data' is
\*                 found by the in test and cannot be used as an index
\*   data_unsized  an object whose 'data' value has no length (null, a number,
\*                 true, false)
\*   ok            an object whose 'data' value can be iterated
SourceStates ==
  {"missing", "unreadable", "undecodable", "too_deep", "huge_number", "invalid_json",
   "scalar_json", "no_data_key", "data_element", "data_unsized", "ok"}

\* ProductService.load_data_file: the exception it raises on a source, "none"
\* when it returns
LoadRaises(src) ==
  CASE src = "missing"      -> "FileNotFoundError"   \* line 30
    [] src = "unreadable"   -> "OSError"             \* open(), line 33
    [] src = "undecodable"  -> "UnicodeDecodeError"  \* json.load, line 34
    [] src = "too_deep"     -> "RecursionError"      \* json.load, line 34
    [] src = "huge_number"  -> "ValueError"          \* json.load, line 34
    [] src = "invalid_json" -> "ValueError"          \* line 36
    [] src = "scalar_json"  -> "TypeError"           \* 'data' in data, line 38
    [] src = "no_data_key"  -> "ValueError"          \* line 39
    [] src = "data_element" -> "TypeError"           \* data['data'], line 41
    [] OTHER                -> "none"

\* what a run does at the upload step: the exception that leaves it ("none"
\* when the upload returns) and the number of documents the collection has
\* gained.  The service is built before the list is looked at: get_settings
\* raises ValueError on a port that is no integer and MongoClient raises
\* PyMongoError on a malformed URI; insert_many, called when there is a
\* document, raises PyMongoError after any number of the documents went in.
UploadOutcomes(objs) ==
  {[exc |-> "none", inserted |-> Len(objs)],
   [exc |-> "ValueError", inserted |-> 0]}
    \cup {[exc |-> "PyMongoError", inserted |-> k] : k \in 0..Len(objs)}

UNKNOWN ==
  <<"U","n","k","n","o","w","n">>

NoReport ==
  [status |-> "none"]

\* the result file before the run opens it: written tells that open(..., 'w')
\* succeeded, which empties whatever an earlier run left there; complete tells
\* that json.dump wrote all of results; content is the list dumped
NotWritten ==
  [written |-> FALSE, complete |-> FALSE, content |-> <<>>]

NoExtract ==
  StageResult(FALSE, <<>>, FALSE, NoProduct)

NoClassify ==
  [idx |-> 0, product_name |-> <<>>, before |-> NoProduct,
   rule_result |-> ClassificationResult("Other", 0, "rule_based"),
   called |-> FALSE, outcome |-> NoOutcome,
   result |-> ClassificationResult("Other", 0, "rule_based")]

\* MongoDBService.insert_products: the document of one product
Document(p) ==
  [date |-> "today", name |-> p.ProductName, origin |-> p.Origin, brand |-> p.Brand,
   unit |-> p.Unit, price |-> p.Price, currency |-> p.Currency, source |-> p.Source,
   category |-> p.Category, confidence |-> p.Confidence,
   classification_method |-> p.ClassificationMethod,
   original_name |-> p.Original_name]

VARIABLES
  llm_resolved,              \* is_llm_available(groq_api_key)
  extractor_llm_available,   \* HybridProductExtractor.llm_available
  classifier_llm_available,  \* HybridProductClassifier.llm_available
  source,                    \* state of the daily data file
  products,                  \* the list under its 'data' key
  pc,                        \* position in process_daily_products
  idx,                       \* 1-based index of the record being processed
  product_data,              \* the record between extraction and classification
  results,                   \* process_products: results
  product_objects,           \* process_products: product_objects
  errors,                    \* process_products: errors
  llm_calls,                 \* every LLM call attempted, <<idx, kind>>, in order
  last_extract,              \* what the last extraction stage did
  last_classify,             \* what the last classify_product call did
  output_file,               \* the result file: what this run did to it
  database,                  \* the documents inserted into the collection
  raised,                    \* the exception that left process_daily_products
  report,                    \* the summary process_daily_products returns
  probe                      \* one call of a component on its own: input and result

vars ==
  <<llm_resolved, extractor_llm_available, classifier_llm_available, source,
    products, pc, idx, product_data, results, product_objects, errors, llm_calls,
    last_extract, last_classify, output_file, database, raised, report, probe>>

\* the state of the batch run
pipeline ==
  <<llm_resolved, extractor_llm_available, classifier_llm_available, source,
    products, pc, idx, product_data, results, product_objects, errors, llm_calls,
    last_extract, last_classify, output_file, database, raised, report>>

\* no component is called on its own
NoProbe ==
  [fn |-> "none", input |-> <<>>, done |-> FALSE, output |-> <<>>]

flags ==
  <<llm_resolved, extractor_llm_available, classifier_llm_available>>

\* the state after ProductService(groq_api_key) is constructed: each component
\* sets its flag from is_llm_available and clears it if its LLM setup raises
Init ==
  /\ llm_resolved \in BOOLEAN
  /\ extractor_llm_available \in (IF llm_resolved THEN BOOLEAN ELSE {FALSE})
  /\ classifier_llm_available \in (IF llm_resolved THEN BOOLEAN ELSE {FALSE})
  /\ source \in SourceStates
  /\ products \in (IF source = "ok" THEN Batches(MaxBatch) ELSE {<<>>})
  /\ pc = "load"
  /\ idx = 0
  /\ product_data = NoProduct
  /\ results = <<>>
  /\ product_objects = <<>>
  /\ errors = <<>>
  /\ llm_calls = <<>>
  /\ last_extract = NoExtract
  /\ last_classify = NoClassify
  /\ output_file = NotWritten
  /\ database = <<>>
  /\ raised = "none"
  /\ report = NoReport
  /\ probe = NoProbe

\* faulty variant: a source without the 'data' key is read as an empty batch
LoadDataFile_MissingKeyAsEmpty ==
  /\ pc = "load"
  /\ IF source \in {"ok", "no_data_key"}
     THEN /\ pc' = "extract"
          /\ idx' = 1
          /\ raised' = raised
     ELSE /\ pc' = "raised"
          /\ idx' = idx
          /\ raised' = IF LoadRaises(source) # "none"
                       THEN LoadRaises(source) ELSE "TypeError"
  /\ UNCHANGED <<flags, probe, source, products, product_data, results, product_objects,
                 errors, llm_calls, last_extract, last_classify, output_file,
                 database, report>>

\* lines 111-112 of process_daily_products: load_data_file raises or returns
\* the value under 'data', and len() raises TypeError on a value that has no
\* length
LoadDataFile ==
  /\ pc = "load"
  /\ IF source = "ok"
     THEN /\ pc' = "extract"
          /\ idx' = 1
          /\ raised' = raised
     ELSE /\ pc' = "raised"
          /\ idx' = idx
          /\ raised' = IF LoadRaises(source) # "none"
                       THEN LoadRaises(source) ELSE "TypeError"
  /\ UNCHANGED <<flags, probe, source, products, product_data, results, product_objects,
                 errors, llm_calls, last_extract, last_classify, output_file,
                 database, report>>

\* what one extraction stage did, as recorded in last_extract
ExtractRecord(i, raw, llm_available, outcome) ==
  [ExtractStage(raw, llm_available, outcome)
     EXCEPT !.idx = i, !.raw = raw,
            !.outcome = IF @ = "called" THEN outcome.kind ELSE "none"]

\* what one classify_product call did, as recorded in last_classify
ClassifyRecord(i, product, rule_result, llm_available, outcome) ==
  [idx |-> i, product_name |-> product.ProductName, before |-> product,
   rule_result |-> rule_result,
   called |-> ClassifierCallsLLM(rule_result, llm_available),
   outcome |-> IF ClassifierCallsLLM(rule_result, llm_available)
               THEN outcome ELSE NoOutcome,
   result |-> ClassifyFrom(rule_result, llm_available, outcome)]

\* faulty variant: a failed extraction call is made a second time before the
\* regex engine is used
Extract_RetriesOnce ==
  /\ pc = "extract"
  /\ idx <= Len(products)
  /\ IF products[idx].kind # "dict"
     THEN \* product.get raises in the try block, and again in the handler
          /\ pc' = "raised"
          /\ raised' = "AttributeError"
          /\ last_extract' = [NoExtract EXCEPT !.idx = idx, !.raw = products[idx],
                                               !.raised = TRUE]
          /\ UNCHANGED <<idx, product_data, errors, llm_calls>>
     ELSE /\ \E outcome \in ExtractionOutcomes(products[idx]) :
                last_extract' = ExtractRecord(idx, products[idx],
                                              extractor_llm_available, outcome)
          /\ llm_calls' = IF last_extract'.called
                          THEN IF last_extract'.outcome = "raise"
                               THEN llm_calls \o <<<<idx, "extract">>, <<idx, "extract">>>>
                               ELSE Append(llm_calls, <<idx, "extract">>)
                          ELSE llm_calls
          /\ raised' = raised
          /\ IF last_extract'.raised
             THEN /\ errors' = Append(errors,
                       [product_index |-> idx,
                        product_name |-> Get(products[idx], "name", UNKNOWN),
                        error |-> "extraction failed"])
                  /\ idx' = idx + 1
                  /\ pc' = "extract"
                  /\ product_data' = NoProduct
             ELSE /\ product_data' = last_extract'.product
                  /\ pc' = "classify"
                  /\ UNCHANGED <<idx, errors>>
  /\ UNCHANGED <<flags, probe, source, products, results, product_objects, last_classify,
                 output_file, database, report>>

\* one iteration of the loop of process_products, up to the end of the
\* extraction stage of extract_product_data (lines 54-59 and 68-75 of
\* product_service.py, lines 146-154 of product_extractor.py)
Extract ==
  /\ pc = "extract"
  /\ idx <= Len(products)
  /\ IF products[idx].kind # "dict"
     THEN \* product.get raises in the try block, and again in the handler
          /\ pc' = "raised"
          /\ raised' = "AttributeError"
          /\ last_extract' = [NoExtract EXCEPT !.idx = idx, !.raw = products[idx],
                                               !.raised = TRUE]
          /\ UNCHANGED <<idx, product_data, errors, llm_calls>>
     ELSE /\ \E outcome \in ExtractionOutcomes(products[idx]) :
                last_extract' = ExtractRecord(idx, products[idx],
                                              extractor_llm_available, outcome)
          /\ llm_calls' = IF last_extract'.called
                          THEN Append(llm_calls, <<idx, "extract">>)
                          ELSE llm_calls
          /\ raised' = raised
          /\ IF last_extract'.raised
             THEN /\ errors' = Append(errors,
                       [product_index |-> idx,
                        product_name |-> Get(products[idx], "name", UNKNOWN),
                        error |-> "extraction failed"])
                  /\ idx' = idx + 1
                  /\ pc' = "extract"
                  /\ product_data' = NoProduct
             ELSE /\ product_data' = last_extract'.product
                  /\ pc' = "classify"
                  /\ UNCHANGED <<idx, errors>>
  /\ UNCHANGED <<flags, probe, source, products, results, product_objects, last_classify,
                 output_file, database, report>>

\* faulty variant: a failed classification call switches the LLM off for the
\* records that follow
Classify_DisablesLLMOnFailure ==
  /\ pc = "classify"
  /\ \E outcome \in ClassificationOutcomes :
       last_classify' = ClassifyRecord(idx, product_data,
                                       RuleBasedClassify(product_data.ProductName),
                                       classifier_llm_available, outcome)
  /\ llm_calls' = IF last_classify'.called
                  THEN Append(llm_calls, <<idx, "classify">>)
                  ELSE llm_calls
  /\ classifier_llm_available' =
       IF last_classify'.called /\ last_classify'.outcome = LLMFails
       THEN FALSE ELSE classifier_llm_available
  /\ product_objects' = Append(product_objects,
                               WithClassification(product_data, last_classify'.result))
  /\ results' = Append(results,
                       WithClassification(product_data, last_classify'.result))
  /\ product_data' = NoProduct
  /\ idx' = idx + 1
  /\ pc' = "extract"
  /\ UNCHANGED <<llm_resolved, extractor_llm_available, probe, source, products, errors,
                 last_extract, output_file, database, raised, report>>

\* the classification stage of extract_product_data and the rest of the loop
\* body (lines 156-162 of product_extractor.py, lines 62-66 of product_service.py)
Classify ==
  /\ pc = "classify"
  /\ \E outcome \in ClassificationOutcomes :
       last_classify' = ClassifyRecord(idx, product_data,
                                       RuleBasedClassify(product_data.ProductName),
                                       classifier_llm_available, outcome)
  /\ llm_calls' = IF last_classify'.called
                  THEN Append(llm_calls, <<idx, "classify">>)
                  ELSE llm_calls
  /\ product_objects' = Append(product_objects,
                               WithClassification(product_data, last_classify'.result))
  /\ results' = Append(results,
                       WithClassification(product_data, last_classify'.result))
  /\ product_data' = NoProduct
  /\ idx' = idx + 1
  /\ pc' = "extract"
  /\ UNCHANGED <<flags, probe, source, products, errors, last_extract, output_file,
                 database, raised, report>>

\* process_products returns (line 77)
ProcessProductsReturns ==
  /\ pc = "extract"
  /\ idx > Len(products)
  /\ pc' = "save"
  /\ UNCHANGED <<flags, probe, source, products, idx, product_data, results,
                 product_objects, errors, llm_calls, last_extract, last_classify,
                 output_file, database, raised, report>>

\* ProductService.save_results_to_file, called at line 119: open() raises
\* OSError and leaves the file as it was, or the write raises OSError after
\* open() has emptied the file and part of the text is in it; nothing catches
\* either
SaveResults ==
  /\ pc = "save"
  /\ \E outcome \in {"saved", "open_fails", "write_fails"} :
       /\ output_file' =
            CASE outcome = "saved" ->
                   [written |-> TRUE, complete |-> TRUE, content |-> results]
              [] outcome = "write_fails" ->
                   [written |-> TRUE, complete |-> FALSE, content |-> <<>>]
              [] OTHER -> output_file
       /\ pc' = IF outcome = "saved" THEN "upload" ELSE "raised"
       /\ raised' = IF outcome = "saved" THEN raised ELSE "OSError"
  /\ UNCHANGED <<flags, probe, source, products, idx, product_data, results,
                 product_objects, errors, llm_calls, last_extract, last_classify,
                 database, report>>

\* ProductService.upload_to_mongodb (line 122): upload_products builds the
\* MongoDBService and calls insert_products, which re-raises the PyMongoError
\* of insert_many; then the summary returned at lines 125-141
UploadAndReport ==
  /\ pc = "upload"
  /\ \E outcome \in UploadOutcomes(product_objects) :
       /\ database' = database \o
             [k \in 1..outcome.inserted |-> Document(product_objects[k])]
       /\ IF outcome.exc = "none"
          THEN /\ report' = [status |-> "completed",
                             total_products |-> Len(products),
                             processed |-> Len(results),
                             failed |-> Len(errors),
                             results |-> results,
                             errors |-> errors,
                             output_file |-> output_file.written]
               /\ pc' = "done"
               /\ raised' = raised
          ELSE /\ report' = report
               /\ pc' = "raised"
               /\ raised' = outcome.exc
  /\ UNCHANGED <<flags, probe, source, products, idx, product_data, results,
                 product_objects, errors, llm_calls, last_extract, last_classify,
                 output_file>>

Next ==
  \/ LoadDataFile
  \/ Extract
  \/ Classify
  \/ ProcessProductsReturns
  \/ SaveResults
  \/ UploadAndReport

Spec ==
  Init /\ [][Next]_vars

\* the state after construction, before a run over a loaded batch of one
\* record of RoutingItems, or of one record of RawItems followed by one of the
\* other records of RoutingItems
RoutingInit ==
  /\ llm_resolved \in BOOLEAN
  /\ extractor_llm_available \in (IF llm_resolved THEN BOOLEAN ELSE {FALSE})
  /\ classifier_llm_available \in (IF llm_resolved THEN BOOLEAN ELSE {FALSE})
  /\ source = "ok"
  /\ products \in {<<r>> : r \in RoutingItems}
                  \cup {<<r, s>> : r \in RawItems, s \in RoutingItems \ RawItems}
  /\ pc = "load"
  /\ idx = 0
  /\ product_data = NoProduct
  /\ results = <<>>
  /\ product_objects = <<>>
  /\ errors = <<>>
  /\ llm_calls = <<>>
  /\ last_extract = NoExtract
  /\ last_classify = NoClassify
  /\ output_file = NotWritten
  /\ database = <<>>
  /\ raised = "none"
  /\ report = NoReport
  /\ probe = NoProbe

\* the batch run over those batches
RoutingSpec ==
  RoutingInit /\ [][Next]_vars

(* ------------------------------ claims ---------------------------------- *)

Last(s) ==
  s[Len(s)]

\* the last extraction stage ran on a mapping whose name is a text
ExtractedTextName ==
  /\ last_extract.idx > 0
  /\ last_extract.raw.kind = "dict"
  /\ Get(last_extract.raw, "name", <<>>) # NoneStr

\* the record of the last extraction stage has been classified and emitted
EmittedLast ==
  /\ last_classify.idx > 0
  /\ last_classify.idx = last_extract.idx

\* C1: every record extract_product_data returns has a non-null ProductName,
\* Unit, Price, Category, Confidence and ClassificationMethod, whatever the
\* input record and whatever the LLM did (unavailable, raised, returned any
\* record or label).
C1_NoPartialRecord ==
  \A k \in 1..Len(product_objects) :
    /\ product_objects[k].ProductName # NoneStr
    /\ product_objects[k].Unit # NoneStr
    /\ product_objects[k].Price \in Int \X Nat
    /\ product_objects[k].Category # NoneLabel
    /\ product_objects[k].Confidence # NoneNum
    /\ product_objects[k].ClassificationMethod # NoneLabel
    /\ results[k] = product_objects[k]

\* a record was emitted after both LLM calls made for it raised
C1_Witness ==
  /\ EmittedLast
  /\ last_extract.outcome = "raise"
  /\ last_classify.called
  /\ last_classify.outcome = LLMFails
  /\ Len(product_objects) > 0

\* C2: the Category of every emitted record is one of the 16 taxonomy labels,
\* whatever text the LLM classification call returned and whatever Category the
\* LLM-extracted record carried before classification.
C2_CategoryInTaxonomy ==
  /\ Cardinality(CategoryValues) = 16
  /\ \A k \in 1..Len(product_objects) : product_objects[k].Category \in CategoryValues

\* an LLM-extracted record that carried a category outside the taxonomy was
\* classified by an LLM call that returned a text outside the taxonomy
C2_Witness ==
  /\ EmittedLast
  /\ last_classify.before.Category \notin CategoryValues \cup {NoneLabel}
  /\ last_classify.called
  /\ last_classify.outcome.kind = "ok"
  /\ Str(strip(last_classify.outcome.content)) \notin CategoryValues
  /\ Last(product_objects).Category = "Other"

\* C3: when the LLM is available but the LLM extraction call fails, the hybrid
\* extractor run on a complex name produces the extracted fields (Original_name,
\* ProductName, Unit, Origin, Brand, Price, Currency, Source) that the regex
\* engine alone produces for the same input, in the record handed to the
\* classifier and in the record emitted.  (Looked at where the loop stands
\* after the extraction stage and after the record is emitted; the records do
\* not change afterwards.)
C3_FallbackEqualsRegex ==
  (/\ pc \in {"classify", "extract"}
   /\ ExtractedTextName
   /\ last_extract.called
   /\ last_extract.outcome = "raise"
   /\ ~last_extract.raised)
  => With(ExtractedFields(_extract_with_regex(last_extract.raw)), LAMBDA by_regex :
       /\ ExtractedFields(last_extract.product) = by_regex
       /\ pc = "classify" => ExtractedFields(product_data) = by_regex
       /\ EmittedLast => ExtractedFields(Last(product_objects)) = by_regex)

\* the LLM extraction call failed on a complex name and the record was emitted
C3_Witness ==
  /\ ExtractedTextName
  /\ extractor_llm_available
  /\ _is_complex_product_name(last_extract.raw.name)
  /\ last_extract.outcome = "raise"
  /\ EmittedLast
  /\ Last(product_objects).Unit # ONE_PIECE

\* the complexity judgement as the claim words it: more than 5 words, or a
\* complexity keyword in the lowercased name, or one of - / & ( ), or more
\* than 50 characters
JudgedComplex(name) ==
  \/ Cardinality({i \in 1..Len(name) :
                    ~IsSpace(name[i]) /\ (i = 1 \/ IsSpace(name[i-1]))}) > 5
  \/ With(lower(name), LAMBDA s :
       \E keyword \in COMPLEXITY_KEYWORDS :
         \E i \in 1..Len(s) : MatchesAt(keyword, s, i))
  \/ \E i \in 1..Len(name) : name[i] \in {"-", "/", "&", "(", ")"}
  \/ Len(name) > 50

\* C4 as stated: for each record handed to extract_product_data, the LLM
\* extraction call is attempted if and only if the LLM is available and the
\* name is judged complex (a name that is None meets none of the four
\* criteria); in every other case the regex engine is used directly, and the
\* regex engine is also used after any exception from the LLM call.
C4_Original ==
  (last_extract.idx > 0 /\ last_extract.raw.kind = "dict") =>
    With(Get(last_extract.raw, "name", <<>>), LAMBDA name :
      /\ last_extract.called
           <=> (extractor_llm_available /\ name # NoneStr /\ JudgedComplex(name))
      /\ ~last_extract.called => last_extract.path = <<"regex">>
      /\ (last_extract.called /\ last_extract.outcome = "raise")
           => last_extract.path = <<"llm", "regex">>)

\* C4 amended: for each record whose name is a text, the LLM extraction call
\* is attempted if and only if the LLM is available and the name is judged
\* complex (more than 5 words, or a complexity keyword, or one of - / & ( ),
\* or more than 50 characters); in every other case the regex engine alone is
\* used, and the regex engine is used after any exception from the LLM call.
C4_ExtractionRouting ==
  ExtractedTextName =>
    With(Get(last_extract.raw, "name", <<>>), LAMBDA name :
      /\ last_extract.called
           <=> (extractor_llm_available /\ JudgedComplex(name))
      /\ ~last_extract.called => last_extract.path = <<"regex">>
      /\ (last_extract.called /\ last_extract.outcome = "raise")
           => last_extract.path = <<"llm", "regex">>
      /\ (last_extract.called /\ last_extract.outcome = "ok")
           => last_extract.path = <<"llm">>)

\* a name that is complex by its length alone (51 characters in five words,
\* no complexity keyword, none of - / & ( )) went to the LLM, the call raised
\* and the regex engine ran
C4_Witness ==
  /\ ExtractedTextName
  /\ extractor_llm_available
  /\ Len(last_extract.raw.name) = 51
  /\ JudgedComplex(last_extract.raw.name)
  /\ last_extract.called
  /\ last_extract.outcome = "raise"
  /\ last_extract.path = <<"llm", "regex">>

\* C5: when the LLM capability is found unavailable at construction, no LLM
\* call is ever made afterwards, for extraction or for classification.
C5_NoCallWhenUnavailable ==
  ~llm_resolved => llm_calls = <<>>

\* a run without the LLM finished after processing a complex name whose
\* rule-based confidence was not above the threshold
C5_Witness ==
  /\ ~llm_resolved
  /\ pc = "done"
  /\ EmittedLast
  /\ _is_complex_product_name(last_extract.raw.name)
  /\ last_classify.rule_result.confidence <= 85

\* C6 as stated: the hybrid classifier returns the rule-based result unchanged
\* and makes no LLM call exactly when the rule-based confidence is strictly
\* greater than 0.85; a confidence of exactly 0.85 goes to the LLM when the LLM
\* is available.
C6_Original ==
  last_classify.idx > 0 =>
    /\ (~last_classify.called /\ last_classify.result = last_classify.rule_result)
         <=> last_classify.rule_result.confidence > 85
    /\ (last_classify.rule_result.confidence = 85 /\ classifier_llm_available)
         => last_classify.called

\* C6 amended: when the LLM is available, the hybrid classifier returns the
\* rule-based result unchanged and makes no LLM call exactly when the rule-based
\* confidence is strictly greater than 0.85, and a confidence of exactly 0.85
\* goes to the LLM; when the LLM is unavailable it returns the rule-based result
\* unchanged and makes no LLM call at every confidence.
C6_ThresholdGate ==
  last_classify.idx > 0 =>
    /\ classifier_llm_available
         => ((~last_classify.called
                /\ last_classify.result = last_classify.rule_result)
              <=> last_classify.rule_result.confidence > 85)
    /\ (last_classify.rule_result.confidence = 85 /\ classifier_llm_available)
         => last_classify.called
    /\ ~classifier_llm_available
         => (~last_classify.called
               /\ last_classify.result = last_classify.rule_result)

\* a name of rule-based confidence exactly 0.85 went to the LLM
C6_Witness ==
  /\ last_classify.idx > 0
  /\ last_classify.rule_result.confidence = 85
  /\ classifier_llm_available
  /\ last_classify.called

\* C7: when the LLM classification call succeeds, the result is
\* (label, 0.90, "llm") if the returned label maps to a taxonomy entry and
\* (Other, 0.50, "llm") if it maps to none, whatever the rule-based category,
\* and the emitted record carries it.
C7_LlmResult ==
  (/\ last_classify.idx > 0
   /\ last_classify.called
   /\ last_classify.outcome.kind = "ok")
  => /\ last_classify.result =
          IF Str(strip(last_classify.outcome.content)) \in CategoryValues
          THEN ClassificationResult(Str(strip(last_classify.outcome.content)),
                                    90, "llm")
          ELSE ClassificationResult("Other", 50, "llm")
     /\ Last(product_objects).Category = last_classify.result.category
     /\ Last(product_objects).Confidence = last_classify.result.confidence
     /\ Last(product_objects).ClassificationMethod = "llm"

\* the LLM returned a taxonomy label other than the rule-based category
C7_Witness ==
  /\ last_classify.idx > 0
  /\ last_classify.called
  /\ last_classify.outcome.kind = "ok"
  /\ last_classify.result.confidence = 90
  /\ last_classify.rule_result.category \notin {"Other", last_classify.result.category}

\* C8: when the LLM classification call fails, or the LLM is unavailable, the
\* hybrid classifier returns the rule-based category and confidence with method
\* "rule_based", and the record is emitted with them (nothing is raised).
C8_RuleFallback ==
  (/\ last_classify.idx > 0
   /\ \/ last_classify.called /\ last_classify.outcome = LLMFails
      \/ ~classifier_llm_available)
  => /\ last_classify.result =
          ClassificationResult(last_classify.rule_result.category,
                               last_classify.rule_result.confidence, "rule_based")
     /\ ~last_classify.called => last_classify.outcome = NoOutcome
     /\ Len(product_objects) > 0
     /\ Last(product_objects).Category = last_classify.rule_result.category
     /\ Last(product_objects).Confidence = last_classify.rule_result.confidence
     /\ Last(product_objects).ClassificationMethod = "rule_based"
     /\ \A k \in 1..Len(errors) : errors[k].product_index # last_classify.idx

\* the LLM classification call raised for a name the rules gave a category
C8_Witness ==
  /\ last_classify.idx > 0
  /\ last_classify.called
  /\ last_classify.outcome = LLMFails
  /\ last_classify.rule_result.category # "Other"
  /\ last_classify.rule_result.confidence > 0

\* C9: in process_products a record whose processing raises never aborts the
\* batch: an error entry with its index and name is recorded and the loop goes
\* on to the remaining records, for every kind of bad record in the list,
\* an element that is not a mapping included.
C9_BadRecordNeverAborts ==
  (last_extract.idx > 0 /\ last_extract.raised)
  => /\ \E k \in 1..Len(errors) :
          /\ errors[k].product_index = last_extract.idx
          /\ errors[k].product_name = Get(last_extract.raw, "name", UNKNOWN)
     /\ pc # "raised" \/ idx > Len(products)

\* C10: a batch run over a loaded source always ends by reporting total,
\* processed and failed counts with total = processed + failed and one error
\* descriptor per failed record, no input record missing from both the results
\* and the errors, also when the result file write or the database upload
\* fails.  Stated for batches whose elements are all mappings, so that the
\* abort of C9 is not what refutes it.
C10_RunAlwaysReports ==
  (/\ source = "ok"
   /\ \A k \in 1..Len(products) : products[k].kind = "dict"
   /\ pc \in {"done", "raised"})
  => /\ report # NoReport
     /\ report.total_products = Len(products)
     /\ report.total_products = report.processed + report.failed
     /\ Len(report.errors) = report.failed
     /\ Len(report.results) = report.processed


\* C11: when the batch source is missing, is not parseable or lacks the 'data'
\* key, process_daily_products surfaces the error (FileNotFoundError for a
\* missing file, ValueError for text that is not JSON and for a missing key)
\* before any record is extracted, before any result file is written and
\* before any database upload; so it does for every other source from which
\* no list of records is read (bytes that are not UTF-8, JSON nested too
\* deeply or holding too long a number, JSON that is no object with a list
\* under 'data').
C11_FatalSourceError ==
  source # "ok" =>
    /\ pc \in {"load", "raised"}
    /\ pc = "raised" =>
         /\ raised # "none"
         /\ source = "missing" => raised = "FileNotFoundError"
         /\ source \in {"invalid_json", "no_data_key"} => raised = "ValueError"
    /\ last_extract = NoExtract
    /\ last_classify = NoClassify
    /\ llm_calls = <<>>
    /\ results = <<>>
    /\ product_objects = <<>>
    /\ errors = <<>>
    /\ ~output_file.written
    /\ database = <<>>
    /\ report = NoReport

\* load_data_file has raised on a source without the 'data' key
C11_Witness ==
  /\ source = "no_data_key"
  /\ pc = "raised"
  /\ raised = "ValueError"

\* the name of the end-to-end scenario
TOMATO_SCENARIO ==
  <<"F","a","r","m"," ","F","r","e","s","h"," ","B","u","n","c","h"," ","T","o","m","a","t","o"," ","5","0","0","g">>

\* C12: with the LLM disabled, the input {name: "Farm Fresh Bunch Tomato 500g",
\* price: "3.50", source: "SupplierA"} yields product_name "Tomato", a unit
\* containing "500g", no origin, price 3.50, category "Vegetables" and
\* classification_method "rule_based".
C12_TomatoScenario ==
  (/\ ~llm_resolved
   /\ EmittedLast
   /\ last_extract.raw = RawDict(TOMATO_SCENARIO, <<"3",".","5","0">>, <<"S","u","p","p","l","i","e","r","A">>))
  => /\ Last(product_objects).ProductName = <<"T","o","m","a","t","o">>
     /\ Contains(<<"5","0","0","g">>, Last(product_objects).Unit)
     /\ Last(product_objects).Origin = NoneStr
     /\ Last(product_objects).Price = <<35, 1>>
     /\ Last(product_objects).Category = "Vegetables"
     /\ Last(product_objects).ClassificationMethod = "rule_based"

\* C13: in every emitted record, on the regex path and on the LLM path alike,
\* Original_name equals the raw input name verbatim and Source equals the
\* input source.
C13_NameAndSourceVerbatim ==
  EmittedLast =>
    /\ Last(product_objects).Original_name = Get(last_extract.raw, "name", <<>>)
    /\ Last(product_objects).Source = Get(last_extract.raw, "source", <<>>)

(* --------------------- components called on their own ------------------- *)

\* the batch run is not started
PipelineIdle ==
  /\ llm_resolved = FALSE
  /\ extractor_llm_available = FALSE
  /\ classifier_llm_available = FALSE
  /\ source = "ok"
  /\ products = <<>>
  /\ pc = "idle"
  /\ idx = 0
  /\ product_data = NoProduct
  /\ results = <<>>
  /\ product_objects = <<>>
  /\ errors = <<>>
  /\ llm_calls = <<>>
  /\ last_extract = NoExtract
  /\ last_classify = NoClassify
  /\ output_file = NotWritten
  /\ database = <<>>
  /\ raised = "none"
  /\ report = NoReport

\* a call of component fn on input, not yet made
Call(fn, input) ==
  [fn |-> fn, input |-> input, done |-> FALSE, output |-> <<>>]

\* every text of at most n characters of alphabet
RECURSIVE Texts(_, _)
Texts(alphabet, n) ==
  IF n = 0 THEN {<<>>}
  ELSE Texts(alphabet, n - 1) \cup
       {Append(t, c) : t \in {u \in Texts(alphabet, n - 1) : Len(u) = n - 1},
                       c \in alphabet}

\* the words of ws joined by single spaces
RECURSIVE Join(_)
Join(ws) ==
  IF ws = <<>> THEN <<>>
  ELSE IF Len(ws) = 1 THEN ws[1]
  ELSE ws[1] \o <<" ">> \o Join(Tail(ws))

(* ------------------------------ price parser alone ---------------------- *)

\* longest price text
MaxPriceLen == 4

\* the characters price texts are made of: digits, an Arabic-Indic digit
\* three, both separators, a sign, a letter and a space
PRICE_CHARS ==
  {"0", "1", "5", "U+0663", ".", ",", "-", "S", " "}

PriceInit ==
  /\ PipelineIdle
  /\ probe \in {Call("_extract_price", s) : s \in Texts(PRICE_CHARS, MaxPriceLen)}

\* one call of _extract_price
ParsePrice ==
  /\ probe.fn = "_extract_price"
  /\ ~probe.done
  /\ probe' = [probe EXCEPT !.done = TRUE, !.output = _extract_price(probe.input)]
  /\ UNCHANGED pipeline

PriceSpec ==
  PriceInit /\ [][ParsePrice]_vars

\* 10^n
RECURSIVE Pow10(_)
Pow10(n) ==
  IF n = 0 THEN 1 ELSE 10 * Pow10(n - 1)

\* the number written by the digits of s, read left to right, the separators skipped
RECURSIVE DigitsRead(_, _)
DigitsRead(s, acc) ==
  IF s = <<>> THEN acc
  ELSE IF IsDigit(Head(s))
       THEN DigitsRead(Tail(s), 10 * acc + DigitVal(Head(s)))
       ELSE DigitsRead(Tail(s), acc)

\* C14: for every price input the price parser returns a number without
\* raising: with every character other than digits, '.' and ',' stripped and
\* ',' read as '.', it returns the value of the remaining text, which is
\* non-negative, or 0.0 when the remaining text is not a number (no digit, or
\* more than one separator).
C14_PriceParser ==
  (probe.fn = "_extract_price" /\ probe.done) =>
    LET s     == probe.input
        seps  == {i \in 1..Len(s) : s[i] \in {".", ","}}
        digs  == {i \in 1..Len(s) : IsDigit(s[i])}
        frac  == {i \in digs : \E j \in seps : j < i}
    IN  /\ probe.output \in Nat \X Nat
        /\ (Cardinality(seps) > 1 \/ digs = {}) => probe.output = ZERO_PRICE
        /\ (Cardinality(seps) <= 1 /\ digs # {}) =>
             probe.output[1] * Pow10(Cardinality(frac))
               = DigitsRead(s, 0) * Pow10(probe.output[2])

\* a price with a sign, a decimal comma and a fraction was parsed
C14_Witness ==
  /\ probe.fn = "_extract_price"
  /\ probe.done
  /\ probe.input = <<"-", "1", ",", "5">>
  /\ probe.output = <<15, 1>>

(* ------------------------- rule-based classifier alone ------------------ *)

\* most words in a name
MaxWords == 2

\* the words names are made of: keywords of Fruits of three lengths, a word
\* that holds a keyword inside, the two halves of a two-word keyword, a
\* keyword listed under Vegetables and Spices, a keyword of seven letters
\* (which alone scores 28), and a word no keyword is in
RULE_WORDS ==
  { <<"a","p","p","l","e">>, <<"f","i","g">>, <<"f","i","g","s">>, <<"w","a","t","e","r","m","e","l","o","n">>, <<"d","r","a","g","o","n">>, <<"f","r","u","i","t">>, <<"p","e","p","p","e","r">>, <<"c","o","c","o","n","u","t">>, <<"x","y","z">> }

\* every sequence of at most n words
RECURSIVE WordLists(_, _)
WordLists(words, n) ==
  IF n = 0 THEN {<<>>}
  ELSE WordLists(words, n - 1) \cup
       {Append(l, w) : l \in {m \in WordLists(words, n - 1) : Len(m) = n - 1},
                       w \in words}

\* a name as written in the source data: as it is, or capitalised with
\* spaces around it
Styled(name, style) ==
  IF style = "padded" THEN <<" ">> \o title(name) \o <<" ">> ELSE name

RuleNames ==
  {Styled(Join(ws), style) : ws \in WordLists(RULE_WORDS, MaxWords),
                             style \in {"plain", "padded"}}

RuleInit ==
  /\ PipelineIdle
  /\ probe \in {Call("RuleBasedClassifier.classify_product", n) : n \in RuleNames}

\* one call of RuleBasedClassifier.classify_product, with the scores it computed
ClassifyByRules ==
  /\ probe.fn = "RuleBasedClassifier.classify_product"
  /\ ~probe.done
  /\ probe' = [probe EXCEPT !.done = TRUE,
                            !.output = [scores |-> category_scores(probe.input),
                                        result |-> RuleBasedClassify(probe.input)]]
  /\ UNCHANGED pipeline

RuleSpec ==
  RuleInit /\ [][ClassifyByRules]_vars

RuleDone ==
  probe.fn = "RuleBasedClassifier.classify_product" /\ probe.done

\* the sum of f[1..n]
RECURSIVE SumTo(_, _)
SumTo(f, n) ==
  IF n = 0 THEN 0 ELSE f[n] + SumTo(f, n - 1)

\* the weight of keyword k in the lowercased trimmed name n, as the claim words it
ClaimedWeight(k, n) ==
  LET at     == {i \in 1..(Len(n) - Len(k) + 1) : SubSeq(n, i, i + Len(k) - 1) = k}
      whole  == \E i \in at : /\ i = 1 \/ n[i - 1] = " "
                              /\ i + Len(k) - 1 = Len(n) \/ n[i + Len(k)] = " "
      starts == 1 \in at /\ Len(n) > Len(k) /\ n[Len(k) + 1] = " "
  IN  IF at = {} THEN 0
      ELSE ((2 * Len(k)) * (IF whole THEN 2 ELSE 1) * (IF starts THEN 3 ELSE 2)) \div 2

\* C15: the rule-based score of a category is the sum, over that category's
\* keywords that occur as a substring of the lowercased trimmed name, of
\* 2 x keyword length, doubled when the keyword occurs as a space-bounded whole
\* word, and further multiplied by 1.5 when the name starts with the keyword
\* followed by a space.
C15_ScoreFormula ==
  RuleDone =>
    LET n == strip(lower(probe.input))
    IN  \A c \in 1..Len(get_category_keywords) :
          LET kws == get_category_keywords[c].keywords
              w   == [j \in 1..Len(kws) |-> ClaimedWeight(kws[j], n)] \o <<>>
          IN  probe.output.scores[c] = SumTo(w, Len(w))

\* "Apple Figs": apple is a whole word at the start (30), fig is inside a word (6)
C15_Witness ==
  /\ RuleDone
  /\ probe.input = Styled(Join(<<<<"a","p","p","l","e">>, <<"f","i","g","s">>>>), "padded")
  /\ probe.output.scores[1] = 36

\* the largest category score
MaxScoreOf(scores) ==
  CHOOSE m \in {scores[c] : c \in DOMAIN scores} :
    \A c \in DOMAIN scores : scores[c] <= m

\* C16: the rule-based classifier returns (Other, 0.0, "rule_based") when every
\* category score is zero, and otherwise a maximum-score category with
\* confidence 0.95 for score >= 30, 0.85 for >= 20, 0.70 for >= 10, 0.50 for
\* >= 5 and 0.30 below 5.
C16_ConfidenceTable ==
  RuleDone =>
    LET m == MaxScoreOf(probe.output.scores)
        r == probe.output.result
    IN  /\ r.method = "rule_based"
        /\ m = 0 => (r.category = "Other" /\ r.confidence = 0)
        /\ m > 0 =>
             /\ \E c \in DOMAIN probe.output.scores :
                  /\ probe.output.scores[c] = m
                  /\ get_category_keywords[c].category = r.category
             /\ r.confidence = CASE m >= 30 -> 95
                                 [] m >= 20 /\ m < 30 -> 85
                                 [] m >= 10 /\ m < 20 -> 70
                                 [] m >= 5 /\ m < 10 -> 50
                                 [] OTHER -> 30

\* a winning score of exactly 20 got confidence 0.85
C16_Witness ==
  /\ RuleDone
  /\ MaxScoreOf(probe.output.scores) = 20
  /\ probe.output.result.confidence = 85
  /\ probe.output.result.category = "Fruits"

\* the score of the category with the given label
ScoreOfLabel(scores, label) ==
  LET cs == {c \in DOMAIN scores : get_category_keywords[c].category = label}
  IN  IF cs = {} THEN 0 ELSE scores[CHOOSE c \in cs : TRUE]

\* C18: when two or more categories reach the same maximum non-zero score, the
\* rule-based classifier returns the one that comes first in taxonomy
\* declaration order (a name matching only the keyword shared by Vegetables and
\* Spices is classified Vegetables).
C18_TieBreakDeclarationOrder ==
  (RuleDone /\ MaxScoreOf(probe.output.scores) > 0) =>
    LET m     == MaxScoreOf(probe.output.scores)
        tops  == {i \in 1..Len(ProductCategory) :
                    ScoreOfLabel(probe.output.scores, ProductCategory[i]) = m}
        first == CHOOSE i \in tops : \A j \in tops : i <= j
    IN  probe.output.result.category = ProductCategory[first]

\* "pepper" scores the same under Vegetables and Spices and is classified Vegetables
C18_Witness ==
  /\ RuleDone
  /\ probe.input = <<"p","e","p","p","e","r">>
  /\ ScoreOfLabel(probe.output.scores, "Vegetables") = 24
  /\ ScoreOfLabel(probe.output.scores, "Spices") = 24
  /\ MaxScoreOf(probe.output.scores) = 24
  /\ probe.output.result.category = "Vegetables"

\* C17: confidence thresholds are exact boundaries: a name whose winning score
\* is exactly 30 gets confidence 0.95, and a name whose winning score is
\* exactly 29 gets confidence 0.70 or lower; no name whose winning score is
\* below 30 gets 0.95.
C17_ExactBoundaries ==
  RuleDone =>
    LET m == MaxScoreOf(probe.output.scores)
        r == probe.output.result
    IN  /\ m = 30 => r.confidence = 95
        /\ m = 29 => r.confidence <= 70
        /\ m < 30 => r.confidence < 95

\* a name whose winning score is exactly 30 got confidence 0.95
C17_Witness ==
  /\ RuleDone
  /\ MaxScoreOf(probe.output.scores) = 30
  /\ probe.output.result.confidence = 95

(* ----------------------- adding a keyword to a name --------------------- *)

\* the words of RULE_WORDS that are keywords of a category
KEYWORD_WORDS ==
  {w \in RULE_WORDS :
     \E c \in 1..Len(get_category_keywords) :
       \E j \in 1..Len(get_category_keywords[c].keywords) :
         get_category_keywords[c].keywords[j] = w}

\* the categories that list keyword kw
CategoriesOf(kw) ==
  {c \in 1..Len(get_category_keywords) :
     \E j \in 1..Len(get_category_keywords[c].keywords) :
       get_category_keywords[c].keywords[j] = kw}

\* ws with word kw inserted after its first at words
InsertWord(ws, kw, at) ==
  SubSeq(ws, 1, at) \o <<kw>> \o SubSeq(ws, at + 1, Len(ws))

\* the score of category c for a name (lines 39-58)
ScoreOf(c, product_name) ==
  SumWeights(get_category_keywords[c].keywords, strip(lower(product_name)), 1)

KeywordInit ==
  /\ PipelineIdle
  /\ probe \in {Call("add_keyword", [words |-> ws, keyword |-> kw, at |-> at]) :
                  ws \in WordLists(RULE_WORDS, MaxWords),
                  kw \in KEYWORD_WORDS,
                  at \in 0..MaxWords}
  /\ probe.input.at <= Len(probe.input.words)

\* the scores of the keyword's categories for the name and for the name with
\* the keyword added as a word at the front (at = 0), inside, or at the end
ScoreBeforeAndAfter ==
  /\ probe.fn = "add_keyword"
  /\ ~probe.done
  /\ probe' = [probe EXCEPT
       !.done = TRUE,
       !.output = [c \in CategoriesOf(probe.input.keyword) |->
                     [before |-> ScoreOf(c, Join(probe.input.words)),
                      after  |-> ScoreOf(c, Join(InsertWord(probe.input.words,
                                                           probe.input.keyword,
                                                           probe.input.at)))]]]
  /\ UNCHANGED pipeline

KeywordSpec ==
  KeywordInit /\ [][ScoreBeforeAndAfter]_vars

\* C19 as stated: adding one more matching keyword of a category to a name (at
\* the front, at the end, or inside it) never decreases that category's
\* rule-based score.
C19_Original ==
  (probe.fn = "add_keyword" /\ probe.done) =>
    \A c \in DOMAIN probe.output : probe.output[c].after >= probe.output[c].before

\* C19 amended: adding one more matching keyword of a category to a name at the
\* end, as a word after a space, never decreases that category's rule-based
\* score, and increases it when the name did not contain the keyword.
C19_MonotoneAtEnd ==
  (/\ probe.fn = "add_keyword"
   /\ probe.done
   /\ probe.input.at = Len(probe.input.words))
  => \A c \in DOMAIN probe.output :
       /\ probe.output[c].after >= probe.output[c].before
       /\ ~Contains(probe.input.keyword, Join(probe.input.words))
            => probe.output[c].after > probe.output[c].before

\* "watermelon xyz" scored 60 under Fruits and "watermelon xyz fig" scored 72
C19_Witness ==
  /\ probe.fn = "add_keyword"
  /\ probe.done
  /\ probe.input = [words |-> <<<<"w","a","t","e","r","m","e","l","o","n">>, <<"x","y","z">>>>, keyword |-> <<"f","i","g">>, at |-> 2]
  /\ probe.output[1].before = 60
  /\ probe.output[1].after = 72

(* ------------------------------ unit extractor alone -------------------- *)

\* most words in a name handed to the unit extractor
MaxUnitWords == 3

\* the words those names are made of: a product, a number+unit token, the two
\* words of a compound phrase, a word that ends like the first of them, a
\* number and a unit that together read "1 piece", that unit written with a
\* dotless i, and a number+unit token whose number is an Arabic-Indic digit
UNIT_WORDS ==
  { <<"a","p","p","l","e">>, <<"2","k","g">>, <<"t","h","e","r","m","o">>, <<"x","t","h","e","r","m","o">>, <<"b","o","x">>, <<"1">>, <<"p","i","e","c","e">>, <<"p","U+0131","e","c","e">>, <<"U+0663","k","g">> }

UnitNames ==
  {Styled(Join(ws), style) : ws \in WordLists(UNIT_WORDS, MaxUnitWords),
                             style \in {"plain", "padded"}}

UnitInit ==
  /\ PipelineIdle
  /\ probe \in {Call("extract_unit", n) : n \in UnitNames}

\* one call of UnitExtractor.extract_unit
ExtractUnit ==
  /\ probe.fn = "extract_unit"
  /\ ~probe.done
  /\ probe' = [probe EXCEPT !.done = TRUE, !.output = extract_unit(probe.input)]
  /\ UNCHANGED pipeline

UnitSpec ==
  UnitInit /\ [][ExtractUnit]_vars

\* s[i..j] stands as a word: no word character right before or right after it
StandsAlone(s, i, j) ==
  /\ i = 1 \/ ~IsWordChar(s[i - 1])
  /\ j = Len(s) \/ ~IsWordChar(s[j + 1])

\* where one of the words stands as a word in s, letter case ignored the way
\* re.IGNORECASE ignores it: <<first, last>> positions
WordTokens(s, words) ==
  {<<x[1], x[1] + Len(x[2]) - 1>> :
     x \in {y \in (1..Len(s)) \X words :
              /\ IMatchesAt(y[2], s, y[1])
              /\ StandsAlone(s, y[1], y[1] + Len(y[2]) - 1)}}

\* t is digits, or digits '.' digits
IsNumber(t) ==
  /\ t # <<>>
  /\ \/ \A k \in 1..Len(t) : IsDigit(t[k])
     \/ \E k \in 2..(Len(t) - 1) :
          /\ t[k] = "."
          /\ \A m \in (1..Len(t)) \ {k} : IsDigit(t[m])

\* where a compound unit phrase stands in s: <<first, last>> positions
CompoundTokens(s) ==
  WordTokens(s, COMPOUND_UNITS)

\* where a number, optional whitespace and a unit keyword stand in s
NumericTokens(s) ==
  {<<i, j>> \in (1..Len(s)) \X (1..Len(s)) :
     /\ IsDigit(s[i])
     /\ StandsAlone(s, i, j)
     /\ \E d \in i..j : \E q \in (d + 1)..j :
          /\ IsNumber(SubSeq(s, i, d))
          /\ \A k \in (d + 1)..(q - 1) : IsSpace(s[k])
          /\ \E u \in UNIT_KEYWORDS : Len(u) = j - q + 1 /\ IMatchesAt(u, s, q)}

\* the text of the leftmost token of a non-empty set, the longest at that place
FirstToken(s, tokens) ==
  LET t == CHOOSE x \in tokens :
             \A y \in tokens : x[1] < y[1] \/ (x[1] = y[1] /\ x[2] >= y[2])
  IN  SubSeq(s, t[1], t[2])

\* the three cases of the unit extractor, on the lowercased name
UnitCases ==
  LET s  == lower(probe.input)
      cs == CompoundTokens(s)
      ns == NumericTokens(s)
  IN  /\ cs # {} => probe.output = FirstToken(s, cs)
      /\ (cs = {} /\ ns # {}) => probe.output = FirstToken(s, ns)
      /\ (cs = {} /\ ns = {}) => probe.output = ONE_PIECE

\* C20 as stated: the unit extractor returns a compound unit phrase whenever
\* the name contains one, also when a numeric+unit token is present or comes
\* earlier in the name; it returns the first numeric+unit match only when no
\* compound phrase is present, and "1 piece" exactly when neither is present.
C20_Original ==
  (probe.fn = "extract_unit" /\ probe.done) =>
    /\ UnitCases
    /\ probe.output = ONE_PIECE
         <=> (/\ CompoundTokens(lower(probe.input)) = {}
              /\ NumericTokens(lower(probe.input)) = {})

\* C20 amended: the unit extractor returns a compound unit phrase whenever the
\* name contains one, also when a numeric+unit token is present or comes
\* earlier in the name; it returns the first numeric+unit match only when no
\* compound phrase is present, and "1 piece" when neither is present; it also
\* returns "1 piece" when the first numeric+unit match is itself "1 piece", and
\* in no other case.
C20_UnitPrecedence ==
  (probe.fn = "extract_unit" /\ probe.done) =>
    /\ UnitCases
    /\ probe.output = ONE_PIECE
         <=> LET s == lower(probe.input)
             IN  /\ CompoundTokens(s) = {}
                 /\ \/ NumericTokens(s) = {}
                    \/ FirstToken(s, NumericTokens(s)) = ONE_PIECE

\* "2kg thermo box": the compound phrase wins over the number+unit token before it
C20_Witness ==
  /\ probe.fn = "extract_unit"
  /\ probe.done
  /\ probe.input = Join(<<<<"2","k","g">>, <<"t","h","e","r","m","o">>, <<"b","o","x">>>>)
  /\ NumericTokens(lower(probe.input)) = {<<1, 3>>}
  /\ probe.output = <<"t","h","e","r","m","o"," ","b","o","x">>

(* ------------------------------ origin extractor alone ------------------ *)

\* most words in a name handed to the origin extractor
MaxOriginWords == 3

\* the words names are made of: country tokens of one word, the two words of
\* a country token of two words, a country token written with a dotless i, a
\* word that holds a country token inside, and words that are no country
ORIGIN_WORDS ==
  { <<"l","o","c","a","l">>, <<"e","g","y","p","t">>, <<"s","a","u","d","i">>, <<"a","r","a","b","i","a">>, <<"s","a","u","d","U+0131">>, <<"x","l","o","c","a","l">>, <<"d","a","t","e","s">>, <<"f","r","o","m">>, <<"u","s","a">> }

\* a name with every letter as a capital
upper(s) ==
  With(s, LAMBDA t : With([i \in 1..Len(t) |-> UpperChar(t[i])], Flat))

\* a name in one of the spellings of the source data
Spelled(name, style) ==
  IF style = "upper" THEN upper(name)
  ELSE IF style = "title" THEN title(name)
  ELSE Styled(name, style)

OriginNames ==
  {Spelled(Join(ws), style) : ws \in WordLists(ORIGIN_WORDS, MaxOriginWords),
                              style \in {"plain", "padded", "title", "upper"}}

OriginInit ==
  /\ PipelineIdle
  /\ probe \in {Call("extract_origin", n) : n \in OriginNames}

\* one call of OriginExtractor.extract_origin
ExtractOrigin ==
  /\ probe.fn = "extract_origin"
  /\ ~probe.done
  /\ probe' = [probe EXCEPT !.done = TRUE, !.output = extract_origin(probe.input)]
  /\ UNCHANGED pipeline

OriginSpec ==
  OriginInit /\ [][ExtractOrigin]_vars

\* where a country name stands as a word in s: <<first, last>> positions
CountryTokens(s) ==
  WordTokens(s, COUNTRIES)

\* a lowercase token with the first letter of each of its words in upper case
Capitalised(t) ==
  With(t, LAMBDA v :
    With([i \in 1..Len(v) |-> IF i = 1 \/ v[i - 1] = " "
                              THEN UpperChar(v[i]) ELSE <<v[i]>>], Flat))

\* C21: the origin extractor returns the title-cased country token found in
\* the name, returns "Saudi" when the matched token is "local" in any letter
\* case, and returns no origin when no country token is present.
C21_OriginExtractor ==
  (probe.fn = "extract_origin" /\ probe.done) =>
    LET s  == lower(probe.input)
        ts == CountryTokens(s)
    IN  /\ ts = {} => probe.output = NoneStr
        /\ ts # {} =>
             LET t == FirstToken(s, ts)
             IN  probe.output = IF t = LOCAL_TOKEN THEN SAUDI ELSE Capitalised(t)

\* "LOCAL DATES": the token "local", written in capitals, gives "Saudi"
C21_Witness ==
  /\ probe.fn = "extract_origin"
  /\ probe.done
  /\ probe.input = <<"L","O","C","A","L"," ","D","A","T","E","S">>
  /\ probe.output = SAUDI

\* C22: when a multi-word country name and a country name that is its prefix
\* both match at the same position, the origin extractor returns the
\* multi-word name: "Saudi Arabia Dates" resolves to "Saudi Arabia", never
\* "Saudi".
C22_LongestCountryWins ==
  (probe.fn = "extract_origin" /\ probe.done) =>
    LET s  == lower(probe.input)
        ts == CountryTokens(s)
    IN  \A long \in ts : \A short \in ts :
          ( /\ long[1] = short[1]
            /\ long[2] > short[2]
            /\ \E k \in long[1]..long[2] : s[k] = " "
            /\ \A t \in ts : t[1] >= long[1] )
          => /\ probe.output = Capitalised(SubSeq(s, long[1], long[2]))
             /\ probe.output # Capitalised(SubSeq(s, short[1], short[2]))

\* "Saudi Arabia Dates" gave "Saudi Arabia"
C22_Witness ==
  /\ probe.fn = "extract_origin"
  /\ probe.done
  /\ probe.input = <<"S","a","u","d","i"," ","A","r","a","b","i","a"," ","D","a","t","e","s">>
  /\ {<<1, 5>>, <<1, 12>>} \subseteq CountryTokens(lower(probe.input))
  /\ probe.output = <<"S","a","u","d","i"," ","A","r","a","b","i","a">>

(* ------------------------------ name cleaner alone ---------------------- *)

\* most words in a name handed to the name cleaner
MaxCleanWords == 3

\* the words names are made of: a product word with a descriptive word
\* inside, a country token, a descriptive word, the same word written with a
\* long s, a number with a unit, two descriptive words joined by a hyphen,
\* and a word of two letters
CLEAN_WORDS ==
  { <<"p","r","a","w","n">>, <<"e","g","y","p","t">>, <<"f","r","e","s","h">>, <<"f","r","e","U+017F","h">>, <<"2","k","g">>, <<"r","e","d","-","r","a","w">>, <<"o","k">> }

EGYPT ==
  <<"E","g","y","p","t">>

CleanNames ==
  {Spelled(Join(ws), style) : ws \in WordLists(CLEAN_WORDS, MaxCleanWords),
                              style \in {"plain", "padded", "title"}}

\* the arguments of clean_product_name: a name, with the origin and the unit
\* left out or given as the extractors return them
CleanArgs ==
  {[name |-> n, origin |-> o, unit |-> u] :
     n \in CleanNames, o \in {NoneStr, EGYPT}, u \in {NoneStr, ONE_PIECE, <<"2","k","g">>}}

\* clean_name when the fallback is reached (line 54)
CleanedName(name, origin, unit) ==
  LET n1 == IF origin # NoneStr /\ origin # <<>>
            THEN RemoveMatches("origin", origin, name, 1) ELSE name
      n2 == IF unit # NoneStr /\ unit # <<>> /\ unit # ONE_PIECE
            THEN RemoveMatches("unit", unit, n1, 1) ELSE n1
      n3 == RemoveMatches("descriptive", <<>>, n2, 1)
  IN  strip(CollapseSpaces(n3, 1))

CleanInit ==
  /\ PipelineIdle
  /\ probe \in {Call("clean_product_name", a) : a \in CleanArgs}

\* one call of ProductNameCleaner.clean_product_name, with the name it had
\* before the length test
CleanName ==
  /\ probe.fn = "clean_product_name"
  /\ ~probe.done
  /\ LET a == probe.input
     IN  probe' = [probe EXCEPT
                     !.done = TRUE,
                     !.output = [clean_name |-> CleanedName(a.name, a.origin, a.unit),
                                 result |-> clean_product_name(a.name, a.origin, a.unit)]]
  /\ UNCHANGED pipeline

CleanSpec ==
  CleanInit /\ [][CleanName]_vars

CleanDone ==
  probe.fn = "clean_product_name" /\ probe.done

\* where the origin stands as a word in s, letter case ignored
OriginOccurrences(s, origin) ==
  {i \in 1..(Len(s) - Len(origin) + 1) :
     /\ IMatchesAt(origin, s, i)
     /\ StandsAlone(s, i, i + Len(origin) - 1)}

\* C23 as stated: when an origin is supplied, the name cleaner removes only
\* the first word-bounded case-insensitive occurrence of that origin string
\* from the name; a second occurrence of the same origin word stays in the
\* cleaned name.
C23_Original ==
  ( /\ CleanDone
    /\ probe.input.origin # NoneStr
    /\ Cardinality(OriginOccurrences(probe.input.name, probe.input.origin)) >= 2 )
  => OriginOccurrences(probe.output.result, probe.input.origin) # {}

\* C23 amended: when an origin is supplied, the name cleaner removes every
\* word-bounded case-insensitive occurrence of that origin string from the
\* name, not only the first: for an origin of one word and a call that
\* removes no unit, no occurrence of the origin stays in the cleaned name,
\* unless cleaning leaves fewer than 2 characters and the fallback rule
\* answers from the original name.
C23_EveryOccurrenceRemoved ==
  ( /\ CleanDone
    /\ probe.input.origin # NoneStr
    /\ \A k \in 1..Len(probe.input.origin) : ~IsSpace(probe.input.origin[k])
    /\ probe.input.unit \in {NoneStr, ONE_PIECE} )
  => /\ OriginOccurrences(probe.output.clean_name, probe.input.origin) = {}
     /\ Len(probe.output.clean_name) >= 2
          => OriginOccurrences(probe.output.result, probe.input.origin) = {}

\* "egypt prawn egypt" cleaned with origin "Egypt": both occurrences are gone
C23_Witness ==
  /\ CleanDone
  /\ probe.input.name = Join(<<<<"e","g","y","p","t">>, <<"p","r","a","w","n">>, <<"e","g","y","p","t">>>>)
  /\ probe.input.origin = EGYPT
  /\ probe.input.unit = NoneStr
  /\ probe.output.result = <<"p","r","a","w","n">>

\* a word the fallback may return: its lowercase form without non-word
\* characters is longer than 2 and is no unit keyword, descriptive word or country
Qualifies(word) ==
  LET word_clean == SelectSeq(lower(word), IsWordChar)
  IN  /\ Len(word_clean) > 2
      /\ word_clean \notin (UNIT_KEYWORDS \cup DESCRIPTIVE_WORDS \cup COUNTRIES)

\* the last word of the name that qualifies, or none when no word does
LastQualifying(name, none) ==
  LET ws   == split(name)
      good == {k \in 1..Len(ws) : Qualifies(ws[k])}
  IN  IF good = {} THEN none
      ELSE ws[CHOOSE k \in good : \A j \in good : j <= k]

\* C24 as stated: when cleaning leaves fewer than 2 characters, the name
\* cleaner scans the original name's words from last to first and returns the
\* first word whose lowercase form, stripped of non-word characters, is longer
\* than 2 characters and is in none of the unit-keyword, descriptive-word and
\* country sets; when no word qualifies it returns the original name
\* unmodified.
C24_Original ==
  (CleanDone /\ Len(probe.output.clean_name) < 2) =>
    probe.output.result = LastQualifying(probe.input.name, probe.input.name)

\* C24 amended: as stated, but when no word qualifies the name cleaner
\* returns the original name with the whitespace at its ends removed.
C24_FallbackWord ==
  (CleanDone /\ Len(probe.output.clean_name) < 2) =>
    probe.output.result = LastQualifying(probe.input.name, strip(probe.input.name))

\* "red-raw 2kg" with unit "2kg": cleaning leaves "-", both words qualify,
\* and the last one is returned
C24_Witness ==
  /\ CleanDone
  /\ probe.input.name = Join(<<<<"r","e","d","-","r","a","w">>, <<"2","k","g">>>>)
  /\ probe.input.unit = <<"2","k","g">>
  /\ probe.output.clean_name = <<"-">>
  /\ Qualifies(<<"r","e","d","-","r","a","w">>)
  /\ probe.output.result = <<"2","k","g">>

\* where a descriptive word stands as a word in s
DescriptiveTokens(s) ==
  WordTokens(s, DESCRIPTIVE_WORDS)

\* a name that is already clean: at least 2 characters, its words separated
\* by single spaces, no origin, unit or descriptive token in it
IsCleanName(name) ==
  LET s == lower(name)
  IN  /\ Len(name) >= 2
      /\ ~IsSpace(name[1]) /\ ~IsSpace(name[Len(name)])
      /\ \A k \in 1..Len(name) : IsSpace(name[k]) => name[k] = " "
      /\ \A k \in 1..(Len(name) - 1) : ~(IsSpace(name[k]) /\ IsSpace(name[k + 1]))
      /\ CountryTokens(s) = {}
      /\ CompoundTokens(s) = {}
      /\ NumericTokens(s) = {}
      /\ DescriptiveTokens(s) = {}

\* C25: cleaning a name that is already clean (single-spaced, at least 2
\* characters, no origin, unit or descriptive token) returns the name
\* unchanged, so cleaning the output of a cleaning of such a name changes
\* nothing.
C25_CleanNameUnchanged ==
  ( /\ CleanDone
    /\ IsCleanName(probe.input.name)
    /\ \/ probe.input.unit \in {NoneStr, ONE_PIECE}
       \/ \A i \in 1..Len(probe.input.name) :
            ~IMatchesAt(probe.input.unit, probe.input.name, i) )
  => /\ probe.output.result = probe.input.name
     /\ IsCleanName(probe.output.result)

\* the clean name "Prawn Ok" came back as it was
C25_Witness ==
  /\ CleanDone
  /\ probe.input.name = <<"P","r","a","w","n"," ","O","k">>
  /\ IsCleanName(probe.input.name)
  /\ probe.input.unit = ONE_PIECE
  /\ probe.output.result = probe.input.name

(* ------------------------------ regex engine alone ---------------------- *)

\* names that end in a product word, so that cleaning always leaves a word
RegexNames ==
  {Spelled(Join(Append(ws, <<"d","a","t","e","s">>)), style) :
     ws \in WordLists(ORIGIN_WORDS, MaxOriginWords - 1),
     style \in {"plain", "padded", "title", "upper"}}

\* the records handed to the regex engine: a name, a price and a source
RegexRecords ==
  {RawDict(n, <<"3",".","5","0">>, <<"S","u","p","p","l","i","e","r","A">>) : n \in RegexNames}

RegexInit ==
  /\ PipelineIdle
  /\ probe \in {Call("_extract_with_regex", r) : r \in RegexRecords}

\* one call of HybridProductExtractor._extract_with_regex
ExtractWithRegex ==
  /\ probe.fn = "_extract_with_regex"
  /\ ~probe.done
  /\ probe' = [probe EXCEPT !.done = TRUE, !.output = _extract_with_regex(probe.input)]
  /\ UNCHANGED pipeline

RegexSpec ==
  RegexInit /\ [][ExtractWithRegex]_vars

\* C27: on the regex path, the cleaned ProductName never contains the country
\* token that the origin extractor matched in the name, for every country
\* token of the registry including "local".
C27_NoCountryTokenInName ==
  (probe.fn = "_extract_with_regex" /\ probe.done /\ probe.output.Origin # NoneStr) =>
    LET s == lower(probe.input.name)
    IN  OriginOccurrences(probe.output.ProductName,
                          FirstToken(s, CountryTokens(s))) = {}

(* ------------------------------ the batch run: frame and order ---------- *)

\* in a run without errors and without LLM calls, equal records of the batch
\* gave equal outputs, wherever they stand in the batch
SameRecordSameOutput ==
  (errors = <<>> /\ llm_calls = <<>>) =>
    \A i \in 1..Len(results) : \A j \in 1..Len(results) :
      products[i] = products[j] => results[i] = results[j]

\* C26: processing a record writes no shared state: the availability flags
\* (the pattern registry and the keyword table are constants of the model,
\* the code has no assignment to them) are unchanged by extract_product_data,
\* also after LLM failures, so the output for a record is the same whichever
\* records were processed before it.
C26_NoSharedStateWritten ==
  /\ [][flags' = flags]_vars
  /\ []SameRecordSameOutput

\* both LLM calls for a record failed and both flags are still set; the
\* record before it in the batch was the same record
C26_Witness ==
  /\ last_extract.called /\ last_extract.outcome = "raise"
  /\ last_classify.called /\ last_classify.outcome = LLMFails
  /\ last_classify.idx = 2 /\ last_extract.idx = 2
  /\ products[1] = products[2]
  /\ extractor_llm_available /\ classifier_llm_available

(* ------------------------------ hybrid classifier alone ----------------- *)

\* the arguments of a call of the hybrid classifier: a name, the flag the
\* classifier was constructed with, and what the LLM call does if it is made
HybridArgs ==
  {[product_name |-> n, llm_available |-> a, outcome |-> o] :
     n \in RuleNames, a \in BOOLEAN, o \in ClassificationOutcomes}

HybridInit ==
  /\ PipelineIdle
  /\ probe \in {Call("HybridProductClassifier.classify_product", a) : a \in HybridArgs}

\* one call of HybridProductClassifier.classify_product, with the scores and
\* the result of the rule-based classifier it starts from
ClassifyHybrid ==
  /\ probe.fn = "HybridProductClassifier.classify_product"
  /\ ~probe.done
  /\ LET a == probe.input
     IN  probe' = [probe EXCEPT
                     !.done = TRUE,
                     !.output = [scores |-> category_scores(a.product_name),
                                 rule_result |-> RuleBasedClassify(a.product_name),
                                 result |-> classify_product(a.product_name,
                                                             a.llm_available, a.outcome)]]
  /\ UNCHANGED pipeline

HybridSpec ==
  HybridInit /\ [][ClassifyHybrid]_vars

HybridDone ==
  probe.fn = "HybridProductClassifier.classify_product" /\ probe.done

\* the confidences the rule-based classifier can return, in hundredths
RuleConfidences ==
  {0, 50, 70, 85, 95}

\* C28: with the shipped keyword table, every non-zero category score is an
\* even whole number of at least 6, so the rule-based classifier only ever
\* returns a confidence in {0.0, 0.50, 0.70, 0.85, 0.95}: the 0.30 branch is
\* unreachable, and every hybrid result has method "rule_based" with one of
\* those confidences or method "llm" with confidence 0.90 or 0.50.
C28_ReachableConfidences ==
  HybridDone =>
    /\ \A c \in DOMAIN probe.output.scores :
         \/ probe.output.scores[c] = 0
         \/ probe.output.scores[c] >= 6 /\ probe.output.scores[c] % 2 = 0
    /\ probe.output.rule_result.confidence \in RuleConfidences
    /\ probe.output.rule_result.confidence # 30
    /\ \/ /\ probe.output.result.method = "rule_based"
          /\ probe.output.result.confidence \in RuleConfidences
       \/ /\ probe.output.result.method = "llm"
          /\ probe.output.result.confidence \in {90, 50}

\* "figs" scores 6 for Fruits, the least score there is; the rule-based
\* confidence is 0.50 and the LLM, answering with no taxonomy label, gives
\* Other with 0.50
C28_Witness ==
  /\ HybridDone
  /\ probe.input.product_name = <<"f","i","g","s">>
  /\ probe.output.scores[1] = 6
  /\ probe.output.rule_result.confidence = 50
  /\ probe.input.llm_available
  /\ probe.output.result = ClassificationResult("Other", 50, "llm")

(* ------------------------------ the batch run: LLM calls ---------------- *)

\* the kinds of the LLM calls made for record i, in the order they were made
CallsFor(i) ==
  LET mine == SelectSeq(llm_calls, LAMBDA c : c[1] = i)
  IN  [k \in 1..Len(mine) |-> mine[k][2]]

\* C29: processing one record makes at most one LLM extraction call and at
\* most one LLM classification call, with no retry after a failure, and the
\* extraction call, when made, happens before the classification call; a
\* failed extraction call does not prevent the classification call for the
\* same record.
C29_LlmCallsPerRecord ==
  /\ \A i \in 1..Len(products) :
       CallsFor(i) \in {<<>>, <<"extract">>, <<"classify">>, <<"extract", "classify">>}
  /\ ( /\ last_extract.idx = idx
       /\ last_extract.called /\ last_extract.outcome = "raise"
       /\ ~last_extract.raised )
     => pc = "classify"
  /\ ( /\ last_classify.idx = last_extract.idx
       /\ last_extract.called /\ last_extract.outcome = "raise" )
     => last_classify.called = ( /\ classifier_llm_available
                                 /\ last_classify.rule_result.confidence <= 85 )

\* the extraction call for the first record failed, and the classification
\* call for that record was made after it
C29_Witness ==
  /\ last_extract.idx = 1 /\ last_classify.idx = 1
  /\ last_extract.called /\ last_extract.outcome = "raise"
  /\ last_classify.called
  /\ llm_calls = <<<<1, "extract">>, <<1, "classify">>>>

(* ------------------------------ product-comparison route ---------------- *)

\* the values of the enum ComparisonPeriod
ComparisonPeriod ==
  { <<"t","o","d","a","y">>, <<"w","e","e","k">>, <<"m","o","n","t","h">>, <<"q","u","a","r","t","e","r">>, <<"y","e","a","r">>, <<"a","l","l">> }

\* the period values a request can carry: the enum values and texts that are
\* no enum value, in several spellings
RoutePeriods ==
  {Spelled(p, style) :
     p \in ComparisonPeriod \cup {<<>>, <<"d","a","i","l","y">>, <<"t","o"," ","d","a","y">>},
     style \in {"plain", "padded", "title", "upper"}}

\* a request to the route, with what it meets: whether the comparison
\* service can be constructed ("up"), or its construction fails in
\* get_settings ("bad_settings": int() of a port that is no integer raises
\* ValueError) or in MongoClient ("no_client": PyMongoError), and whether the
\* collection holds a product that matches
RouteRequests ==
  {[period |-> p, service |-> s, matching |-> m] :
     p \in RoutePeriods, s \in {"up", "bad_settings", "no_client"}, m \in BOOLEAN}

\* how a block of code ends: it returns a value or raises an exception
Returns(value) ==
  [kind |-> "return", value |-> value, exc |-> "none", status_code |-> 0]

Raises(exc, status_code) ==
  [kind |-> "raise", value |-> "none", exc |-> exc, status_code |-> status_code]

\* ProductComparisonService.get_product_comparison: None when no product
\* matches, a comparison otherwise
get_product_comparison(matching) ==
  IF matching THEN Returns("comparison") ELSE Returns("None")

\* the call at lines 131-135 of routes.py: it passes the keyword unit, which
\* get_product_comparison(self, product_name, period) does not accept, so
\* Python raises TypeError before the body of the method runs
CallGetProductComparison(matching) ==
  Raises("TypeError", 0)

\* the try block of get_product_comparison_route (lines 128-143).  The
\* service is obtained first (line 128), before the period is looked at.  A
\* comparison holds at least one supplier price, and the conversion of line
\* 143 reads the attribute in_stock (line 96), which SupplierPrice does not
\* have: it raises AttributeError.
RouteTryBlock(request) ==
  IF request.service = "bad_settings" THEN Raises("ValueError", 0)
  ELSE IF request.service = "no_client" THEN Raises("PyMongoError", 0)
  ELSE IF lower(request.period) \notin ComparisonPeriod THEN Raises("ValueError", 0)
  ELSE LET comparison == CallGetProductComparison(request.matching)
       IN  IF comparison.kind = "raise" THEN comparison
           ELSE IF comparison.value = "None" THEN Raises("HTTPException", 404)
           ELSE Raises("AttributeError", 0)

\* get_product_comparison_route: the status of the response; the clause
\* "except Exception" catches every exception that is no ValueError, the
\* HTTPException of line 138 included
get_product_comparison_route(request) ==
  LET try == RouteTryBlock(request)
  IN  IF try.kind = "return" THEN [status |-> 200, raised |-> "none"]
      ELSE IF try.exc = "ValueError" THEN [status |-> 400, raised |-> try.exc]
      ELSE [status |-> 500, raised |-> try.exc]

RouteInit ==
  /\ PipelineIdle
  /\ probe \in {Call("get_product_comparison_route", r) : r \in RouteRequests}

\* one request answered by get_product_comparison_route
AnswerComparison ==
  /\ probe.fn = "get_product_comparison_route"
  /\ ~probe.done
  /\ probe' = [probe EXCEPT !.done = TRUE,
                            !.output = get_product_comparison_route(probe.input)]
  /\ UNCHANGED pipeline

RouteSpec ==
  RouteInit /\ [][AnswerComparison]_vars

\* C30: the product-comparison route answers with status 404 when the
\* comparison service finds no matching product, with status 400 when the
\* period value is invalid, and with status 500 only for other unexpected
\* errors; the 404 raised inside the handler is not turned into another
\* status by the handler's own exception clauses.
C30_ComparisonStatuses ==
  (probe.fn = "get_product_comparison_route" /\ probe.done) =>
    LET valid   == lower(probe.input.period) \in ComparisonPeriod
        nomatch == probe.input.service = "up" /\ valid /\ ~probe.input.matching
        invalid == probe.input.service = "up" /\ ~valid
    IN  /\ nomatch => probe.output.status = 404
        /\ invalid => probe.output.status = 400
        /\ probe.output.status = 500 => ~nomatch /\ ~invalid
        /\ probe.output.raised = "HTTPException" => probe.output.status = 404
====
